---- MODULE Spec2Model ----
(***************************************************************************)
(* PanWatch: the agent scheduling and execution engine                     *)
(* (src/src/core/scheduler.py, src/server.py).                             *)
(*                                                                         *)
(* Python strings are modelled as sequences of one-character strings, so   *)
(* that split(), startswith(), endswith(), replace() and int() are         *)
(* computed character by character as the interpreter computes them.       *)
(***************************************************************************)
EXTENDS Integers, Sequences, FiniteSets, TLC

VARIABLES
    agents,           \* AgentScheduler.agents: name -> agent instance (0: absent)
    context_builder,  \* AgentScheduler.context_builder is set (TRUE) or None (FALSE)
    jobs,             \* the job table of AgentScheduler.scheduler: <<[id, trigger]>>
    running,          \* AgentScheduler.scheduler has been started
    ninst,            \* agent instances constructed so far (instances are numbered)
    ret,              \* outcome of the last register() call
    stock_agents,     \* the stock_agents table: {<<stock_id, agent_name>>}
    nctx,             \* AgentContext objects constructed so far (contexts are numbered)
    runs,             \* the executions started so far, in order of their start
    stocks,           \* the stocks table: {[id, symbol, market]}
    agent_configs,    \* the agent_configs table: the names of its rows
    resp,             \* the response to the last request of the stocks / agents API
    requests,         \* the create_stock requests: request -> [pc, symbol, market, status]
    _CACHE,           \* update_checker._CACHE: [ts, latest_version]
    _CACHE_LOCK,      \* update_checker._CACHE_LOCK: the caller holding it (0: free)
    callers,          \* the check_update calls: caller -> [pc, now, seen, fetched, latest]
    clock,            \* time.monotonic(), in seconds
    _buffer,          \* DBLogHandler._buffer
    _lock,            \* DBLogHandler._lock: the thread holding it (0: free)
    _timer,           \* DBLogHandler._timer and its thread: [state, fires]
    batches,          \* the lists of entries _flush has taken out of the buffer
    threads,          \* the logging threads: thread -> [pc, entry]
    nentries,         \* log entries appended so far (entries are numbered)
    closer            \* the call of close(): [pc, before]

web_vars == <<stocks, agent_configs, resp, requests>>

cache_vars == <<_CACHE, _CACHE_LOCK, callers, clock>>

log_vars == <<_buffer, _lock, _timer, batches, threads, nentries, closer>>

\* the state of the web application outside the engine
app_vars == <<web_vars, cache_vars, log_vars>>

vars == <<agents, context_builder, jobs, running, ninst, ret, stock_agents, nctx, runs,
          app_vars>>

sched_vars == <<agents, context_builder, jobs, running, ninst, ret>>

run_vars == <<stock_agents, nctx, runs>>

(***************************************************************************)
(* Bounds of the model.                                                    *)
(***************************************************************************)
MaxInst == 3          \* register() calls explored (one fresh instance each)

MaxRegs == 2          \* register() calls explored together with executions

MaxRuns == 2          \* executions started (scheduled firings and manual triggers)

(***************************************************************************)
(* Agent names.                                                            *)
(***************************************************************************)
AgentNames == {"daily_report", "news_digest"}

NoAgent == 0

(***************************************************************************)
(* Python string helpers.                                                  *)
(***************************************************************************)
WhiteSpace == {" ", "\t", "\n"}

Digits == {"0", "1", "2", "3", "4", "5", "6", "7", "8", "9"}

DigitVal(c) ==
    CASE c = "0" -> 0 [] c = "1" -> 1 [] c = "2" -> 2 [] c = "3" -> 3
      [] c = "4" -> 4 [] c = "5" -> 5 [] c = "6" -> 6 [] c = "7" -> 7
      [] c = "8" -> 8 [] c = "9" -> 9

\* str.startswith(p)
StartsWith(s, p) == Len(s) >= Len(p) /\ SubSeq(s, 1, Len(p)) = p

\* str.endswith(p)
EndsWith(s, p) == Len(s) >= Len(p) /\ SubSeq(s, Len(s) - Len(p) + 1, Len(s)) = p

\* s[:-1]
DropLast(s) == SubSeq(s, 1, Len(s) - 1)

\* str.replace(p, ""): every non-overlapping occurrence of p, left to right
RECURSIVE RemoveAll(_, _)
RemoveAll(s, p) ==
    IF Len(s) < Len(p) THEN s
    ELSE IF SubSeq(s, 1, Len(p)) = p
         THEN RemoveAll(SubSeq(s, Len(p) + 1, Len(s)), p)
         ELSE <<Head(s)>> \o RemoveAll(Tail(s), p)

\* str.split() with no argument: the maximal runs of non-whitespace characters
RECURSIVE SplitFrom(_, _, _, _)
SplitFrom(s, i, cur, acc) ==
    IF i > Len(s)
    THEN IF cur = <<>> THEN acc ELSE Append(acc, cur)
    ELSE IF s[i] \in WhiteSpace
         THEN SplitFrom(s, i + 1, <<>>, IF cur = <<>> THEN acc ELSE Append(acc, cur))
         ELSE SplitFrom(s, i + 1, Append(cur, s[i]), acc)

Split(s) == SplitFrom(s, 1, <<>>, <<>>)

\* str.strip()
RECURSIVE LStrip(_)
LStrip(s) == IF s # <<>> /\ Head(s) \in WhiteSpace THEN LStrip(Tail(s)) ELSE s

RECURSIVE RStrip(_)
RStrip(s) == IF s # <<>> /\ s[Len(s)] \in WhiteSpace THEN RStrip(DropLast(s)) ELSE s

Strip(s) == RStrip(LStrip(s))

\* the digit groups int() accepts: digits, single underscores between digits
RECURSIVE IsDigitGroups(_)
IsDigitGroups(s) ==
    /\ s # <<>>
    /\ Head(s) \in Digits
    /\ \/ Len(s) = 1
       \/ /\ s[2] = "_"
          /\ IsDigitGroups(SubSeq(s, 3, Len(s)))
       \/ /\ s[2] # "_"
          /\ IsDigitGroups(Tail(s))

RECURSIVE DecimalValue(_, _)
DecimalValue(s, acc) ==
    IF s = <<>> THEN acc
    ELSE IF Head(s) = "_" THEN DecimalValue(Tail(s), acc)
         ELSE DecimalValue(Tail(s), 10 * acc + DigitVal(Head(s)))

\* int(s): [ok |-> FALSE] stands for ValueError
PyInt(s) ==
    LET t == Strip(s)
        signed == t # <<>> /\ Head(t) \in {"+", "-"}
        body == IF signed THEN Tail(t) ELSE t
    IN  IF IsDigitGroups(body)
        THEN [ok |-> TRUE,
              val |-> IF signed /\ Head(t) = "-"
                      THEN 0 - DecimalValue(body, 0)
                      ELSE DecimalValue(body, 0)]
        ELSE [ok |-> FALSE, val |-> 0]

(***************************************************************************)
(* Triggers.                                                               *)
(***************************************************************************)
NoTrigger == [kind |-> "none"]

Parsed(t) == [raised |-> FALSE, trigger |-> t]

ValueError == [raised |-> TRUE, trigger |-> NoTrigger]

\* str.split(c): the pieces between the occurrences of c, empty ones included
SplitOn(s, c) ==
    LET at == SelectSeq([i \in 1..Len(s) |-> i], LAMBDA i : s[i] = c)
        \* the position of the k-th occurrence of c; 0 and Len(s) + 1 around them
        sep(k) == IF k = 0 THEN 0 ELSE IF k > Len(at) THEN Len(s) + 1 ELSE at[k]
    IN  [k \in 1..(Len(at) + 1) |-> SubSeq(s, sep(k - 1) + 1, sep(k) - 1)]

\* the regular expression \d+
IsNumber(s) == s # <<>> /\ \A k \in 1..Len(s) : s[k] \in Digits

\* MIN_VALUES and MAX_VALUES of the cron fields
FieldMin(field) ==
    CASE field = "minute" -> 0 [] field = "hour" -> 0 [] field = "day" -> 1
      [] field = "month" -> 1 [] field = "day_of_week" -> 0

FieldMax(field) ==
    CASE field = "minute" -> 59 [] field = "hour" -> 23 [] field = "day" -> 31
      [] field = "month" -> 12 [] field = "day_of_week" -> 6

\* One expression of a cron field is compiled when the trigger is constructed:
\* "*", "*/step", "a", "a-b", "a/step" or "a-b/step" with values inside the
\* range of the field; anything else makes the constructor raise ValueError.
\* (The month and weekday names and the "last" forms of the day field are not
\* modelled; no expression registered here uses them.)
ExpressionCompiles(field, expr) ==
    LET sp == SplitOn(expr, "/")
        has_step == Len(sp) = 2
        base == sp[1]
        dp == SplitOn(base, "-")
    IN  /\ Len(sp) \in {1, 2}
        /\ has_step => IsNumber(sp[2])
        /\ has_step => DecimalValue(sp[2], 0) # 0
        /\ has_step => DecimalValue(sp[2], 0) <= FieldMax(field) - FieldMin(field)
        /\ \/ base = <<"*">>
           \/ /\ Len(dp) \in {1, 2}
              /\ \A k \in 1..Len(dp) : IsNumber(dp[k])
              /\ LET first == DecimalValue(dp[1], 0)
                     has_last == Len(dp) = 2 \/ ~has_step
                     last == IF Len(dp) = 2 THEN DecimalValue(dp[2], 0) ELSE first
                     top == IF has_last /\ last # 0 THEN last ELSE FieldMax(field)
                 IN  /\ has_last => first <= last
                     /\ first >= FieldMin(field)
                     /\ has_last => last <= FieldMax(field)
                     /\ has_step => DecimalValue(sp[2], 0) <= top - first

\* a field is a comma-separated list of expressions
FieldCompiles(field, value) ==
    LET exprs == SplitOn(value, ",")
    IN  \A k \in 1..Len(exprs) : ExpressionCompiles(field, exprs[k])

\* CronTrigger(minute=, hour=, day=, month=, day_of_week=): the trigger, or the
\* ValueError of a field that does not compile
CronTrigger(mi, ho, da, mo, dw) ==
    IF /\ FieldCompiles("minute", mi)
       /\ FieldCompiles("hour", ho)
       /\ FieldCompiles("day", da)
       /\ FieldCompiles("month", mo)
       /\ FieldCompiles("day_of_week", dw)
    THEN Parsed([kind |-> "cron", minute |-> mi, hour |-> ho, day |-> da,
                 month |-> mo, day_of_week |-> dw])
    ELSE ValueError

\* IntervalTrigger(seconds= | minutes= | hours=)
IntervalTrigger(unit, n) == [kind |-> "interval", unit |-> unit, value |-> n]

INTERVAL_PREFIX == <<"i", "n", "t", "e", "r", "v", "a", "l", ":">>

\* _parse_cron rejecting only expressions with fewer than five fields
_parse_cron_at_least_five(cron) ==
    LET parts == Split(cron)
    IN  IF Len(parts) < 5
        THEN ValueError
        ELSE CronTrigger(parts[1], parts[2], parts[3], parts[4], parts[5])

\* AgentScheduler._parse_cron
_parse_cron(cron) ==
    LET parts == Split(cron)
    IN  IF Len(parts) # 5
        THEN ValueError
        ELSE CronTrigger(parts[1], parts[2], parts[3], parts[4], parts[5])

\* _parse_interval passing the number of minutes as seconds
_parse_interval_minutes_as_seconds(expr) ==
    LET value == RemoveAll(expr, INTERVAL_PREFIX)
        n == PyInt(DropLast(value))
    IN  IF EndsWith(value, <<"s">>) \/ EndsWith(value, <<"m">>)
        THEN IF n.ok THEN Parsed(IntervalTrigger("seconds", n.val)) ELSE ValueError
        ELSE IF EndsWith(value, <<"h">>)
        THEN IF n.ok THEN Parsed(IntervalTrigger("hours", n.val)) ELSE ValueError
        ELSE ValueError

\* AgentScheduler._parse_interval
_parse_interval(expr) ==
    LET value == RemoveAll(expr, INTERVAL_PREFIX)
        n == PyInt(DropLast(value))
    IN  IF EndsWith(value, <<"s">>)
        THEN IF n.ok THEN Parsed(IntervalTrigger("seconds", n.val)) ELSE ValueError
        ELSE IF EndsWith(value, <<"m">>)
        THEN IF n.ok THEN Parsed(IntervalTrigger("minutes", n.val)) ELSE ValueError
        ELSE IF EndsWith(value, <<"h">>)
        THEN IF n.ok THEN Parsed(IntervalTrigger("hours", n.val)) ELSE ValueError
        ELSE ValueError

\* the dispatch of register() on the shape of the expression
ParseSchedule(schedule) ==
    IF StartsWith(schedule, INTERVAL_PREFIX)
    THEN _parse_interval(schedule)
    ELSE _parse_cron(schedule)

(***************************************************************************)
(* Schedule expressions the model registers.                               *)
(***************************************************************************)
CronExprs ==
    { <<"3","0"," ","1","5"," ","*"," ","*"," ","1","-","5">>,
      <<"*","/","3","0"," ","9","-","1","5"," ","*"," ","*"," ","1","-","5">>,
      <<"0"," ","*","/","2"," ","9","-","1","8"," ","*"," ","*"," ","1","-","5">>,
      <<" ","0"," "," ","9","\t","*"," ","*"," ","1","-","5"," ">>,
      <<"0"," ","9"," ","*"," ","*">>,
      <<"9","9"," ","*"," ","*"," ","*"," ","*">>,
      <<"x"," ","1","5"," ","*"," ","*"," ","1","-","5">>,
      <<"3","m">>,
      <<>> }

IntervalExprs ==
    { INTERVAL_PREFIX \o <<"3","m">>,
      INTERVAL_PREFIX \o <<"3","0","s">>,
      INTERVAL_PREFIX \o <<"1","h">>,
      INTERVAL_PREFIX \o <<"0","m">>,
      INTERVAL_PREFIX \o <<"-","1","h">>,
      INTERVAL_PREFIX \o <<"5","x">>,
      INTERVAL_PREFIX \o <<"m">>,
      INTERVAL_PREFIX \o <<"x","s">>,
      INTERVAL_PREFIX \o <<"3">>,
      INTERVAL_PREFIX }

Exprs == CronExprs \cup IntervalExprs

(***************************************************************************)
(* The job table of the scheduler.                                         *)
(***************************************************************************)
JobsOf(js, id) == {i \in 1..Len(js) : js[i].id = id}

\* add_job that keeps the job already stored under the id
add_job_keeps_existing(js, id, trigger) ==
    Append(js, [id |-> id, trigger |-> trigger])

\* scheduler.add_job(..., id=id, replace_existing=True)
add_job(js, id, trigger) ==
    IF JobsOf(js, id) = {}
    THEN Append(js, [id |-> id, trigger |-> trigger])
    ELSE [i \in 1..Len(js) |->
            IF js[i].id = id THEN [id |-> id, trigger |-> trigger] ELSE js[i]]

(***************************************************************************)
(* Persisted configuration and the context built from it.                  *)
(***************************************************************************)
StockIds == {1}

\* the rows the tables hold when the program starts: the database outlives the
\* process, here it holds one stock and the configurations of AgentNames
SeedStocks == {[id |-> 1, symbol |-> "600519", market |-> "CN"]}

NoVersion == "None"

Requests == {1, 2}

Callers == {1, 2}

Threads == {1, 2}

\* AGENT_REGISTRY of server.py: the names that have an implementation
AGENT_REGISTRY == {"daily_report"}

RECURSIVE Ascending(_)
Ascending(S) ==
    IF S = {} THEN <<>>
    ELSE LET m == CHOOSE x \in S : \A y \in S : x <= y
         IN  <<m>> \o Ascending(S \ {m})

\* load_watchlist_for_agent: the stocks associated with the agent
load_watchlist_for_agent(sa, agent_name) ==
    Ascending({id \in StockIds : <<id, agent_name>> \in sa})

NoContext == [id |-> 0, agent_name |-> "", watchlist |-> <<>>]

\* build_context: a new AgentContext over the configuration as it is now
build_context(sa, agent_name, id) ==
    [id |-> id, agent_name |-> agent_name,
     watchlist |-> load_watchlist_for_agent(sa, agent_name)]

(***************************************************************************)
(* Executions.  A run record keeps what one execution did: the calls of    *)
(* the context builder (builds, build_errors, built_for, ctx), the         *)
(* invocations of the agent body (bodies, body_ctx), what was logged, and  *)
(* whether an exception left the pipeline (raised).  prior_failed records  *)
(* how many earlier runs of the same agent had already ended in an         *)
(* exception when this one started.                                        *)
(***************************************************************************)
FailedRuns(agent_name) ==
    {k \in 1..Len(runs) : /\ runs[k].name = agent_name
                          /\ runs[k].pc = "done"
                          /\ runs[k].log = "exception"}

NewRun(agent_name, via) ==
    [name |-> agent_name, via |-> via, pc |-> "done", log |-> "none",
     builds |-> 0, build_errors |-> 0, built_for |-> "", ctx |-> NoContext,
     bodies |-> 0, body_ctx |-> NoContext, raised |-> FALSE, result |-> "none",
     prior_failed |-> Cardinality(FailedRuns(agent_name))]

\* _run_agent without its try/except: the exception leaves the pipeline
except_nothing(run) ==
    [run EXCEPT !.pc = "done", !.raised = TRUE]

\* "except Exception as e: logger.error(...)" of _run_agent
except_Exception(run) ==
    [run EXCEPT !.pc = "done", !.log = "exception", !.raised = FALSE]

\* an exception that no handler of the pipeline catches
Propagate(run) ==
    [run EXCEPT !.pc = "done", !.raised = TRUE]

\* the context of the latest earlier run of the agent, if there is one
CachedContext(agent_name) ==
    LET earlier == {k \in 1..Len(runs) : /\ runs[k].name = agent_name
                                         /\ runs[k].ctx # NoContext}
    IN  IF earlier = {} THEN NoContext
        ELSE runs[CHOOSE k \in earlier : \A j \in earlier : j <= k].ctx

\* _run_agent handing the agent the context it built for an earlier run
RunAgentEntry_cached_context(agent_name, via, build_ok) ==
    LET r == NewRun(agent_name, via)
    IN  IF ~context_builder
        THEN [r EXCEPT !.log = "context_builder_unset"]
        ELSE IF agents[agent_name] = NoAgent
        THEN [r EXCEPT !.log = "agent_not_found"]
        ELSE IF ~build_ok
        THEN [r EXCEPT !.builds = 1, !.build_errors = 1, !.built_for = agent_name,
                       !.log = "exception"]
        ELSE LET context == build_context(stock_agents, agent_name, nctx + 1)
                 cached == CachedContext(agent_name)
             IN  [r EXCEPT !.builds = 1, !.built_for = agent_name, !.ctx = context,
                           !.bodies = 1, !.pc = "body",
                           !.body_ctx = IF cached = NoContext THEN context ELSE cached]

\* _run_agent calling the builder a second time when the first call raised
RunAgentEntry_retries_build(agent_name, via, build_ok) ==
    LET r == NewRun(agent_name, via)
        context == build_context(stock_agents, agent_name, nctx + 1)
    IN  IF ~context_builder
        THEN [r EXCEPT !.log = "context_builder_unset"]
        ELSE IF agents[agent_name] = NoAgent
        THEN [r EXCEPT !.log = "agent_not_found"]
        ELSE IF ~build_ok
        THEN [r EXCEPT !.builds = 2, !.build_errors = 1, !.built_for = agent_name,
                       !.ctx = context, !.bodies = 1, !.body_ctx = context,
                       !.pc = "body"]
        ELSE [r EXCEPT !.builds = 1, !.built_for = agent_name, !.ctx = context,
                       !.bodies = 1, !.body_ctx = context, !.pc = "body"]

\* _run_agent without the lookup of the agent in self.agents
RunAgentEntry_no_lookup(agent_name, via, build_ok) ==
    LET r == NewRun(agent_name, via)
    IN  IF ~context_builder
        THEN [r EXCEPT !.log = "context_builder_unset"]
        ELSE IF ~build_ok
        THEN [r EXCEPT !.builds = 1, !.build_errors = 1, !.built_for = agent_name,
                       !.log = "exception"]
        ELSE LET context == build_context(stock_agents, agent_name, nctx + 1)
             IN  [r EXCEPT !.builds = 1, !.built_for = agent_name, !.ctx = context,
                           !.bodies = 1, !.body_ctx = context, !.pc = "body"]

\* _run_agent raising when no builder is set, instead of logging and returning
RunAgentEntry_unset_builder_raises(agent_name, via, build_ok) ==
    LET r == NewRun(agent_name, via)
    IN  IF ~context_builder
        THEN Propagate([r EXCEPT !.log = "context_builder_unset"])
        ELSE IF agents[agent_name] = NoAgent
        THEN [r EXCEPT !.log = "agent_not_found"]
        ELSE IF ~build_ok
        THEN except_Exception([r EXCEPT !.builds = 1, !.build_errors = 1,
                                        !.built_for = agent_name])
        ELSE LET context == build_context(stock_agents, agent_name, nctx + 1)
             IN  [r EXCEPT !.builds = 1, !.built_for = agent_name, !.ctx = context,
                           !.bodies = 1, !.body_ctx = context, !.pc = "body"]

\* the part of _run_agent up to "await agent.run(context)"; build_ok is
\* whether self.context_builder(agent_name) returns (TRUE) or raises (FALSE)
RunAgentEntry(agent_name, via, build_ok) ==
    LET r == NewRun(agent_name, via)
    IN  IF ~context_builder
        THEN [r EXCEPT !.log = "context_builder_unset"]
        ELSE IF agents[agent_name] = NoAgent
        THEN [r EXCEPT !.log = "agent_not_found"]
        ELSE IF ~build_ok
        THEN except_Exception([r EXCEPT !.builds = 1, !.build_errors = 1,
                                        !.built_for = agent_name])
        ELSE LET context == build_context(stock_agents, agent_name, nctx + 1)
             IN  [r EXCEPT !.builds = 1, !.built_for = agent_name, !.ctx = context,
                           !.bodies = 1, !.body_ctx = context, !.pc = "body"]

\* AgentScheduler._run_agent, up to the point where the agent body is awaited
_run_agent(agent_name, via) ==
    /\ Len(runs) < MaxRuns
    /\ \E build_ok \in BOOLEAN :
          LET r == RunAgentEntry(agent_name, via, build_ok)
          IN  /\ runs' = Append(runs, r)
              /\ nctx' = IF r.ctx = NoContext THEN nctx ELSE nctx + 1
    /\ UNCHANGED <<app_vars, sched_vars, stock_agents>>

(***************************************************************************)
(* Operations.                                                             *)
(***************************************************************************)
NoCall == [op |-> "none"]

Init ==
    /\ agents = [n \in AgentNames |-> NoAgent]
    /\ context_builder = FALSE
    /\ jobs = <<>>
    /\ running = FALSE
    /\ ninst = 0
    /\ ret = NoCall
    /\ stock_agents = {}
    /\ nctx = 0
    /\ runs = <<>>
    /\ stocks = SeedStocks
    /\ agent_configs = AgentNames
    /\ resp = [op |-> "none"]
    /\ requests = [r \in Requests |-> [pc |-> "idle", symbol |-> "", market |-> "",
                                       status |-> 0]]
    /\ _CACHE = [ts |-> 0, latest_version |-> NoVersion]
    /\ _CACHE_LOCK = 0
    /\ callers = [c \in Callers |-> [pc |-> "idle", now |-> 0, seen |-> _CACHE,
                                     fetched |-> FALSE, latest |-> NoVersion]]
    /\ clock = 0
    /\ _buffer = <<>>
    /\ _lock = 0
    /\ _timer = [state |-> "armed", fires |-> 0]
    /\ batches = <<>>
    /\ threads = [t \in Threads |-> [pc |-> "idle", entry |-> 0]]
    /\ nentries = 0
    /\ closer = [pc |-> "idle", before |-> {}]

\* AgentScheduler.set_context_builder
set_context_builder ==
    /\ ~context_builder
    /\ context_builder' = TRUE
    /\ UNCHANGED <<app_vars, agents, jobs, running, ninst, ret, run_vars>>

\* AgentScheduler.register(agent, schedule), agent a fresh instance named name;
\* ret records the call: its arguments, whether it raised, the trigger it
\* parsed, and whether a job with this id existed when it was made
register(name, schedule) ==
    LET inst == ninst + 1
        p == ParseSchedule(schedule)
    IN  /\ ninst < MaxInst
        /\ ninst' = inst
        /\ agents' = [agents EXCEPT ![name] = inst]
        /\ jobs' = IF p.raised THEN jobs ELSE add_job(jobs, name, p.trigger)
        /\ ret' = [op |-> "register", name |-> name, agent |-> inst,
                   schedule |-> schedule, raised |-> p.raised, trigger |-> p.trigger,
                   had_job |-> JobsOf(jobs, name) # {}]
        /\ UNCHANGED <<app_vars, context_builder, running, run_vars>>

\* AgentScheduler.start
start ==
    /\ ~running
    /\ running' = TRUE
    /\ UNCHANGED <<app_vars, agents, context_builder, jobs, ninst, ret, run_vars>>

\* job_fires held back while any execution is in flight
job_fires_global_lock(agent_name) ==
    /\ \A i \in 1..Len(runs) : runs[i].pc # "body"
    /\ running
    /\ JobsOf(jobs, agent_name) # {}
    /\ _run_agent(agent_name, "job")

\* a scheduled firing: the started scheduler runs the job with id agent_name,
\* that is _run_agent(agent_name)
job_fires(agent_name) ==
    /\ running
    /\ JobsOf(jobs, agent_name) # {}
    /\ _run_agent(agent_name, "job")

\* AgentScheduler.trigger_now
trigger_now(agent_name) == _run_agent(agent_name, "trigger_now")

\* server.trigger_agent, up to the point where the agent body is awaited
trigger_agent(agent_name) ==
    /\ Len(runs) < MaxRuns
    /\ \E build_ok \in BOOLEAN :
          LET r == NewRun(agent_name, "trigger_agent")
              context == build_context(stock_agents, agent_name, nctx + 1)
              built == [r EXCEPT !.builds = 1, !.built_for = agent_name]
              run == IF agent_name \notin AGENT_REGISTRY
                     THEN Propagate([r EXCEPT !.log = "not_registered"])
                     ELSE IF ~build_ok
                     THEN Propagate([built EXCEPT !.build_errors = 1])
                     ELSE IF context.watchlist = <<>>
                     THEN [built EXCEPT !.ctx = context, !.log = "no_watchlist",
                                        !.result = "message"]
                     ELSE [built EXCEPT !.ctx = context, !.bodies = 1,
                                        !.body_ctx = context, !.pc = "body"]
          IN  /\ runs' = Append(runs, run)
              /\ nctx' = IF run.ctx = NoContext THEN nctx ELSE nctx + 1
    /\ UNCHANGED <<app_vars, sched_vars, stock_agents>>

\* "await agent.run(context)" returns
agent_returns(i) ==
    /\ i \in 1..Len(runs)
    /\ runs[i].pc = "body"
    /\ runs' = [runs EXCEPT ![i] =
                  [@ EXCEPT !.pc = "done", !.log = "completed",
                            !.result = IF runs[i].via = "trigger_agent"
                                       THEN "content" ELSE "none"]]
    /\ UNCHANGED <<app_vars, sched_vars, stock_agents, nctx>>

\* a handler that, besides logging, removes the job of the agent that failed
agent_raises_removes_job(i) ==
    /\ i \in 1..Len(runs)
    /\ runs[i].pc = "body"
    /\ runs' = [runs EXCEPT ![i] = [@ EXCEPT !.pc = "done", !.log = "exception"]]
    /\ jobs' = SelectSeq(jobs, LAMBDA j : j.id # runs[i].name)
    /\ UNCHANGED <<app_vars, agents, context_builder, running, ninst, ret, stock_agents, nctx>>

\* "await agent.run(context)" raises
agent_raises(i) ==
    /\ i \in 1..Len(runs)
    /\ runs[i].pc = "body"
    /\ runs' = [runs EXCEPT ![i] =
                  IF @.via = "trigger_agent" THEN Propagate(@)
                  ELSE except_Exception(@)]
    /\ UNCHANGED <<app_vars, sched_vars, stock_agents, nctx>>

\* the ids of the stored stocks
StockIdsOf(rows) == {s.id : s \in rows}

\* the agent names of a request body, a list of StockAgentItem
NamesOf(body) == {body[i] : i \in DOMAIN body}

\* the response of a handler; unknown tells whether the request named an agent
\* without a configuration
Response(op, status, stock_id, unknown) ==
    [op |-> op, status |-> status, stock_id |-> stock_id, unknown |-> unknown]

\* update_stock_agents without the validation of the agent names
update_stock_agents_unvalidated(stock_id, body) ==
    LET unknown == \E n \in NamesOf(body) : n \notin agent_configs
    IN  /\ IF stock_id \notin StockIdsOf(stocks)
           THEN /\ resp' = Response("update_stock_agents", 404, stock_id, unknown)
                /\ UNCHANGED stock_agents
           ELSE IF Cardinality(NamesOf(body)) # Len(body)
           THEN /\ resp' = Response("update_stock_agents", 500, stock_id, unknown)
                /\ UNCHANGED stock_agents
           ELSE /\ stock_agents' = {sa \in stock_agents : sa[1] # stock_id}
                                      \cup {<<stock_id, n>> : n \in NamesOf(body)}
                /\ resp' = Response("update_stock_agents", 200, stock_id, unknown)
        /\ UNCHANGED <<sched_vars, nctx, runs, stocks, agent_configs, requests,
                       cache_vars, log_vars>>

\* update_stock_agents of the stocks API: 404 for an unknown stock, 400 when a
\* named agent has no configuration; otherwise the associations of the stock
\* are replaced by those to the named agents.  Naming an agent twice breaks
\* uq_stock_agent at the commit, and the session is closed without a commit.
update_stock_agents(stock_id, body) ==
    LET unknown == \E n \in NamesOf(body) : n \notin agent_configs
    IN  /\ IF stock_id \notin StockIdsOf(stocks)
           THEN /\ resp' = Response("update_stock_agents", 404, stock_id, unknown)
                /\ UNCHANGED stock_agents
           ELSE IF unknown
           THEN /\ resp' = Response("update_stock_agents", 400, stock_id, unknown)
                /\ UNCHANGED stock_agents
           ELSE IF Cardinality(NamesOf(body)) # Len(body)
           THEN /\ resp' = Response("update_stock_agents", 500, stock_id, unknown)
                /\ UNCHANGED stock_agents
           ELSE /\ stock_agents' = {sa \in stock_agents : sa[1] # stock_id}
                                      \cup {<<stock_id, n>> : n \in NamesOf(body)}
                /\ resp' = Response("update_stock_agents", 200, stock_id, unknown)
        /\ UNCHANGED <<sched_vars, nctx, runs, stocks, agent_configs, requests,
                       cache_vars, log_vars>>

\* the rowid SQLite gives a new row of stocks: one more than the largest stored
NextStockId(rows) ==
    IF rows = {} THEN 1
    ELSE (CHOOSE m \in StockIdsOf(rows) : \A i \in StockIdsOf(rows) : i <= m) + 1

\* create_stock up to its test of the existing rows: the query for a stock of
\* the same symbol and market, and the 400 when there is one
create_stock_query(r, symbol, market) ==
    LET existing == {s \in stocks : s.symbol = symbol /\ s.market = market}
    IN  /\ requests[r].pc = "idle"
        /\ requests' = [requests EXCEPT ![r] =
                            IF existing # {}
                            THEN [pc |-> "done", symbol |-> symbol, market |-> market,
                                  status |-> 400]
                            ELSE [pc |-> "checked", symbol |-> symbol,
                                  market |-> market, status |-> 0]]
        /\ UNCHANGED <<sched_vars, run_vars, stocks, agent_configs, resp,
                       cache_vars, log_vars>>

\* create_stock from db.add to its return: the row is inserted and committed;
\* the stocks table has no constraint over (symbol, market)
create_stock_commit(r) ==
    /\ requests[r].pc = "checked"
    /\ stocks' = stocks \cup {[id |-> NextStockId(stocks),
                                symbol |-> requests[r].symbol,
                                market |-> requests[r].market]}
    /\ requests' = [requests EXCEPT ![r].pc = "done", ![r].status = 200]
    /\ UNCHANGED <<sched_vars, run_vars, agent_configs, resp, cache_vars, log_vars>>

\* delete_stock: 404 for an unknown stock; otherwise the row is deleted and,
\* by the cascade of Stock.agents, its associations with it
delete_stock(stock_id) ==
    /\ IF stock_id \notin StockIdsOf(stocks)
       THEN /\ resp' = Response("delete_stock", 404, stock_id, FALSE)
            /\ UNCHANGED <<stocks, stock_agents>>
       ELSE /\ stocks' = {s \in stocks : s.id # stock_id}
            /\ stock_agents' = {sa \in stock_agents : sa[1] # stock_id}
            /\ resp' = Response("delete_stock", 200, stock_id, FALSE)
    /\ UNCHANGED <<sched_vars, nctx, runs, agent_configs, requests, cache_vars, log_vars>>

\* delete_agent: 404 for an unknown agent; otherwise the associations of the
\* agent are deleted and then its configuration
delete_agent(agent_name) ==
    /\ IF agent_name \notin agent_configs
       THEN /\ resp' = Response("delete_agent", 404, 0, TRUE)
            /\ UNCHANGED <<agent_configs, stock_agents>>
       ELSE /\ stock_agents' = {sa \in stock_agents : sa[2] # agent_name}
            /\ agent_configs' = agent_configs \ {agent_name}
            /\ resp' = Response("delete_agent", 200, 0, FALSE)
    /\ UNCHANGED <<sched_vars, nctx, runs, stocks, requests, cache_vars, log_vars>>

\* scheduler.unregister(name): AgentScheduler defines no such method, so the
\* call raises AttributeError and nothing of the scheduler changes
unregister(name) ==
    /\ ret' = [op |-> "unregister", name |-> name, raised |-> TRUE]
    /\ UNCHANGED <<app_vars, agents, context_builder, jobs, running, ninst, run_vars>>

\* what the executor does at shutdown with the execution it runs for a job:
\* the task of an unfinished one is cancelled, and the CancelledError is not an
\* Exception, so _run_agent logs nothing
cancel(run) ==
    IF run.via = "job" /\ run.pc = "body" THEN [run EXCEPT !.pc = "cancelled"] ELSE run

\* AgentScheduler.shutdown: a plain (not awaited) call of
\* self.scheduler.shutdown() on the event loop that runs the executions
shutdown ==
    /\ running
    /\ running' = FALSE
    /\ runs' = [i \in 1..Len(runs) |-> cancel(runs[i])]
    /\ UNCHANGED <<app_vars, agents, context_builder, jobs, ninst, ret, stock_agents, nctx>>

(***************************************************************************)
(* Markets and trading hours (models/market.py).  A datetime is modelled   *)
(* within one week, to the second: its weekday (Monday 0 .. Sunday 6) and  *)
(* seconds since midnight as read on the clock of its own timezone, and    *)
(* the UTC offset of that timezone in hours.  dst tells whether New York   *)
(* is on daylight time at that instant.                                    *)
(***************************************************************************)
MarketCode == {"CN", "HK", "US"}

\* datetime.time(hour, minute), in seconds since midnight
time(hour, minute) == hour * 3600 + minute * 60

TradingSession(from, to) == [start |-> from, end |-> to]

\* the predefined markets
MARKETS ==
    [m \in MarketCode |->
        CASE m = "CN" -> [timezone |-> "Asia/Shanghai",
                          sessions |-> <<TradingSession(time(9, 30), time(11, 30)),
                                         TradingSession(time(13, 0), time(15, 0))>>]
          [] m = "HK" -> [timezone |-> "Asia/Hong_Kong",
                          sessions |-> <<TradingSession(time(9, 30), time(12, 0)),
                                         TradingSession(time(13, 0), time(16, 0))>>]
          [] m = "US" -> [timezone |-> "America/New_York",
                          sessions |-> <<TradingSession(time(9, 30), time(16, 0))>>]]

\* ZoneInfo(timezone): the UTC offset, in hours, of the zone at the instant
utcoffset(timezone, dst) ==
    CASE timezone = "Asia/Shanghai" -> 8
      [] timezone = "Asia/Hong_Kong" -> 8
      [] timezone = "America/New_York" -> IF dst THEN -4 ELSE -5

\* dt.astimezone(tz): the same instant on the clock of the zone with offset off
astimezone(dt, off) ==
    LET week == 7 * 86400
        total == (dt.weekday * 86400 + dt.seconds + (off - dt.offset) * 3600 + week) % week
    IN  [weekday |-> total \div 86400, seconds |-> total % 86400,
         offset |-> off, dst |-> dt.dst]

\* is_trading_time testing the weekday of dt before converting it
is_trading_time_weekday_as_given(market, dt) ==
    LET local == astimezone(dt, utcoffset(MARKETS[market].timezone, dt.dst))
        sessions == MARKETS[market].sessions
    IN  IF dt.weekday >= 5 THEN FALSE
        ELSE \E k \in 1..Len(sessions) :
                sessions[k].start <= local.seconds /\ local.seconds <= sessions[k].end

\* is_trading_time with sessions that exclude their last instant
is_trading_time_end_exclusive(market, dt) ==
    LET local == astimezone(dt, utcoffset(MARKETS[market].timezone, dt.dst))
        sessions == MARKETS[market].sessions
    IN  IF local.weekday >= 5 THEN FALSE
        ELSE \E k \in 1..Len(sessions) :
                sessions[k].start <= local.seconds /\ local.seconds < sessions[k].end

\* MarketDef.is_trading_time(dt)
is_trading_time(market, dt) ==
    LET local == astimezone(dt, utcoffset(MARKETS[market].timezone, dt.dst))
        sessions == MARKETS[market].sessions
    IN  IF local.weekday >= 5 THEN FALSE
        ELSE \E k \in 1..Len(sessions) :
                sessions[k].start <= local.seconds /\ local.seconds <= sessions[k].end

\* the instants asked about: every half hour of the week, with the second
\* before and the second after, on the clocks of New York (standard time),
\* Greenwich and Shanghai
ClockTimes ==
    {(time(h, mi) + d + 86400) % 86400 : h \in 0..23, mi \in {0, 30}, d \in {-1, 0, 1}}

DateTimes ==
    [weekday : 0..6, seconds : ClockTimes, offset : {-5, 0, 8}, dst : BOOLEAN]

\* a call MARKETS[market].is_trading_time(dt)
is_trading_time_call(market, dt) ==
    /\ ret' = [op |-> "is_trading_time", market |-> market, dt |-> dt,
               result |-> is_trading_time(market, dt)]
    /\ UNCHANGED <<app_vars, agents, context_builder, jobs, running, ninst, run_vars>>

(***************************************************************************)
(* Quote collection (collectors/akshare_collector.py and its callers).     *)
(***************************************************************************)
\* _tencent_symbol with only the "6" test for the "sh" prefix
_tencent_symbol_six_only(symbol, market) ==
    IF market = "HK" THEN <<"h", "k">> \o symbol
    ELSE IF market = "US" THEN <<"u", "s">> \o symbol
    ELSE (IF StartsWith(symbol, <<"6">>) THEN <<"s", "h">> ELSE <<"s", "z">>) \o symbol

\* _tencent_symbol(symbol, market)
_tencent_symbol(symbol, market) ==
    IF market = "HK" THEN <<"h", "k">> \o symbol
    ELSE IF market = "US" THEN <<"u", "s">> \o symbol
    ELSE (IF StartsWith(symbol, <<"6">>) \/ StartsWith(symbol, <<"0", "0", "0">>)
          THEN <<"s", "h">> ELSE <<"s", "z">>) \o symbol

\* the symbols translated: every string of up to three of these characters,
\* and four symbols in use
SymbolChars == {"6", "0", "3", "A"}

Symbols ==
    UNION {[1..n -> SymbolChars] : n \in 0..3}
      \cup { <<"6","0","0","5","1","9">>, <<"0","0","0","0","0","1">>,
             <<"3","0","0","7","5","0">>, <<"0","0","7","0","0">> }

\* a call _tencent_symbol(symbol, market)
tencent_symbol_call(symbol, market) ==
    /\ ret' = [op |-> "_tencent_symbol", symbol |-> symbol, market |-> market,
               result |-> _tencent_symbol(symbol, market)]
    /\ UNCHANGED <<app_vars, agents, context_builder, jobs, running, ninst, run_vars>>

(***************************************************************************)
(* Parsing of a quote response.  A float is modelled in hundredths, exact  *)
(* for the numerals used here: an optional sign, digits and at most one    *)
(* "." with at most two digits after it.                                   *)
(***************************************************************************)
\* "p in s"
Contains(s, p) ==
    \E i \in 1..(Len(s) - Len(p) + 1) : SubSeq(s, i, i + Len(p) - 1) = p

\* s.split(p, 1): the text before and after the first occurrence of p, or the
\* whole of s alone when p does not occur
SplitOnce(s, p) ==
    IF Contains(s, p)
    THEN LET i == CHOOSE i \in 1..(Len(s) - Len(p) + 1) :
                     /\ SubSeq(s, i, i + Len(p) - 1) = p
                     /\ \A j \in 1..(i - 1) : SubSeq(s, j, j + Len(p) - 1) # p
         IN  <<SubSeq(s, 1, i - 1), SubSeq(s, i + Len(p), Len(s))>>
    ELSE <<s>>

\* s.rstrip(chars)
RECURSIVE RStripChars(_, _)
RStripChars(s, chars) ==
    IF s # <<>> /\ s[Len(s)] \in chars THEN RStripChars(DropLast(s), chars) ELSE s

\* float(s) of a string: [ok |-> FALSE] stands for ValueError
PyFloat(s) ==
    LET t == Strip(s)
        signed == t # <<>> /\ Head(t) \in {"+", "-"}
        body == IF signed THEN Tail(t) ELSE t
        dp == SplitOn(body, ".")
        whole == dp[1]
        frac == IF Len(dp) = 2 THEN dp[2] ELSE <<>>
        digits == \A k \in 1..Len(whole) : whole[k] \in Digits
        fdigits == \A k \in 1..Len(frac) : frac[k] \in Digits
        cents == DecimalValue(SubSeq(frac \o <<"0", "0">>, 1, 2), 0)
        val == 100 * DecimalValue(whole, 0) + cents
    IN  IF Len(dp) <= 2 /\ digits /\ fdigits /\ Len(whole) + Len(frac) > 0
        THEN [ok |-> TRUE, val |-> IF signed /\ Head(t) = "-" THEN 0 - val ELSE val]
        ELSE [ok |-> FALSE, val |-> 0]

\* float(x or 0)
FloatOrZero(x) == IF x = <<>> THEN [ok |-> TRUE, val |-> 0] ELSE PyFloat(x)

\* the value None
None == [none |-> TRUE]

\* the turnover taken from the second component of the field
Turnover_second_component(field) ==
    LET turnover_parts == SplitOn(field, "/")
    IN  IF Contains(field, <<"/">>) /\ Len(turnover_parts) >= 3
           /\ PyFloat(turnover_parts[2]).ok
        THEN PyFloat(turnover_parts[2]).val
        ELSE 0

\* the turnover of the field "price/vol/turnover" (parts[35])
Turnover(field) ==
    LET turnover_parts == SplitOn(field, "/")
    IN  IF Contains(field, <<"/">>) /\ Len(turnover_parts) >= 3
           /\ PyFloat(turnover_parts[3]).ok
        THEN PyFloat(turnover_parts[3]).val
        ELSE 0

\* the symbol cut at its first "." wherever that is
NormalSymbol_always_cut(symbol) ==
    IF Contains(symbol, <<".">>) THEN SplitOn(symbol, ".")[1] ELSE symbol

\* the symbol of the field parts[2]: "AAPL.OQ" gives "AAPL", ".IXIC" is kept
NormalSymbol(symbol) ==
    IF Contains(symbol, <<".">>) /\ ~StartsWith(symbol, <<".">>)
    THEN SplitOn(symbol, ".")[1]
    ELSE symbol

\* the body of the try block of _parse_tencent_line; parts[k] of the code is
\* parts[k + 1] here, and the IndexError and ValueError caught give None
ParseValue(line) ==
    LET halves == SplitOnce(line, <<"=", "\"">>)
        value == RStripChars(halves[2], {"\"", ";"})
        parts == SplitOn(value, "~")
        nums == [k \in {4, 5, 6, 7, 32, 33, 34, 35} |-> FloatOrZero(parts[k])]
    IN  IF Len(halves) # 2 THEN None
        ELSE IF Len(parts) < 35 THEN None
        ELSE IF Len(parts) < 36 THEN None
        ELSE IF \E k \in DOMAIN nums : ~nums[k].ok THEN None
        ELSE [none |-> FALSE,
              name |-> parts[2],
              symbol |-> NormalSymbol(parts[3]),
              current_price |-> nums[4].val,
              prev_close |-> nums[5].val,
              open_price |-> nums[6].val,
              volume |-> nums[7].val,
              change_amount |-> nums[32].val,
              change_pct |-> nums[33].val,
              high_price |-> nums[34].val,
              low_price |-> nums[35].val,
              turnover |-> Turnover(parts[36])]

\* _parse_tencent_line(line)
_parse_tencent_line(line) ==
    IF Contains(line, <<"=", "\"", "\"">>) \/ Strip(line) = <<>>
    THEN None
    ELSE ParseValue(line)

\* the loop of _fetch_tencent_quotes without the test of the price
RECURSIVE ParsedLines_any_price(_, _, _)
ParsedLines_any_price(lines, i, results) ==
    IF i > Len(lines) THEN results
    ELSE LET parsed == _parse_tencent_line(lines[i])
         IN  ParsedLines_any_price(lines, i + 1,
                IF parsed # None THEN Append(results, parsed) ELSE results)

\* "for line in content.strip().split(";")" of _fetch_tencent_quotes: the
\* records of the lines that parse and have a positive price
RECURSIVE ParsedLines(_, _, _)
ParsedLines(lines, i, results) ==
    IF i > Len(lines) THEN results
    ELSE LET parsed == _parse_tencent_line(lines[i])
         IN  ParsedLines(lines, i + 1,
                IF parsed # None /\ parsed.current_price > 0
                THEN Append(results, parsed) ELSE results)

ParseContent(content) == ParsedLines(SplitOn(Strip(content), ";"), 1, <<>>)

\* sep.join(pieces)
RECURSIVE Join(_, _)
Join(pieces, sep) ==
    IF pieces = <<>> THEN <<>>
    ELSE IF Len(pieces) = 1 THEN pieces[1]
    ELSE pieces[1] \o sep \o Join(Tail(pieces), sep)

\* The lines a response is made of, each described by its kind and, for a data
\* line, the number of its "~"-separated fields and the text of the fields
\* symbol (parts[2]), price (parts[3]), previous close (parts[4]) and
\* price/volume/turnover (parts[35]).
DataLine(n, sym, price, prev, comp) ==
    [kind |-> "data", n |-> n, sym |-> sym, price |-> price, prev |-> prev, comp |-> comp]

OtherLine(kind) ==
    [kind |-> kind, n |-> 0, sym |-> <<>>, price |-> <<>>, prev |-> <<>>, comp |-> <<>>]

S600519 == <<"6","0","0","5","1","9">>

GoodComp == <<"1",".","5","/","2","/","3",".","5">>

LineKinds ==
    { OtherLine("empty"), OtherLine("blank"), OtherLine("nodata"), OtherLine("garbage") }
      \cup {DataLine(n, S600519, <<"1",".","5">>, <<"1">>, GoodComp) : n \in {34, 35, 36, 37}}
      \cup {DataLine(37, sym, <<"1",".","5">>, <<"1">>, GoodComp) :
                sym \in { <<"A","A","P","L",".","O","Q">>, <<".","I","X","I","C">>,
                          <<"A",".","B",".","C">> }}
      \cup {DataLine(37, S600519, price, <<"1">>, GoodComp) :
                price \in { <<"0">>, <<"0",".","0","0">>, <<>>, <<"x">>, <<"-","1">> }}
      \cup {DataLine(37, S600519, <<"1",".","5">>, prev, GoodComp) :
                prev \in { <<"x">>, <<>> }}
      \cup {DataLine(37, sym, <<"1",".","5">>, <<"1">>, comp) :
                sym \in { S600519, <<"A","A","P","L",".","O","Q">> },
                comp \in { <<"1",".","5","/","2">>, <<"1",".","5","/","2","/","x">>, <<>>,
                           <<"1",".","5","/","2","/">>, <<"1","/","2","/","3","/","4">>,
                           <<"3",".","5">> }}

MaxLines == 2

Responses == UNION {[1..n -> LineKinds] : n \in 0..MaxLines}

\* the text of the k-th line of a response; its name field is the digit k
LineText(d, k) ==
    LET digit == CASE k = 1 -> "1" [] k = 2 -> "2" [] k = 3 -> "3" [] OTHER -> "9"
        fields == [j \in 1..d.n |->
                     CASE j = 1 -> <<"5","1">>
                       [] j = 2 -> <<digit>>
                       [] j = 3 -> d.sym
                       [] j = 4 -> d.price
                       [] j = 5 -> d.prev
                       [] j \in {6, 7} -> <<"1">>
                       [] j \in 32..35 -> <<"2">>
                       [] j = 36 -> d.comp
                       [] OTHER -> <<>>]
    IN  CASE d.kind = "empty" -> <<>>
          [] d.kind = "blank" -> <<" ">>
          [] d.kind = "nodata" -> <<"v","_","x","=","\"","\"">>
          [] d.kind = "garbage" -> <<"p","v","_","n","o","n","e">>
          [] d.kind = "data" -> <<"v","_","x","=","\"">> \o Join(fields, <<"~">>) \o <<"\"">>

\* the body of a response: every line ends with ";" and a newline
ContentOf(lines) ==
    Join([k \in 1..Len(lines) |-> LineText(lines[k], k) \o <<";", "\n">>], <<>>)

\* what _fetch_tencent_quotes makes of a response with these lines
fetch_quotes_call(lines) ==
    /\ ret' = [op |-> "_fetch_tencent_quotes", lines |-> lines,
               results |-> ParseContent(ContentOf(lines))]
    /\ UNCHANGED <<app_vars, agents, context_builder, jobs, running, ninst, run_vars>>

\* grouping that opens a new group for every stock
market_symbols_per_stock(items) ==
    [k \in 1..Len(items) |-> [market |-> items[k].market, symbols |-> <<items[k].symbol>>]]

\* "for stock in watchlist: market_symbols.setdefault(stock.market, [])
\* .append(stock.symbol)": the dict as the sequence of its entries, a dict
\* keeping its keys in the order of their first insertion
RECURSIVE SetDefaultAppend(_, _, _)
SetDefaultAppend(items, i, acc) ==
    IF i > Len(items) THEN acc
    ELSE LET it == items[i]
             at == {k \in 1..Len(acc) : acc[k].market = it.market}
         IN  SetDefaultAppend(items, i + 1,
                IF at = {}
                THEN Append(acc, [market |-> it.market, symbols |-> <<it.symbol>>])
                ELSE [k \in 1..Len(acc) |->
                        IF k \in at THEN [acc[k] EXCEPT !.symbols = Append(@, it.symbol)]
                        ELSE acc[k]])

market_symbols(items) == SetDefaultAppend(items, 1, <<>>)

\* the response the quote server gives for the symbols requested: a data
\* line for each, with the symbol without its two-letter prefix
ResponseFor(symbols) ==
    [k \in 1..Len(symbols) |->
        DataLine(37, SubSeq(symbols[k], 3, Len(symbols[k])), <<"1",".","5">>, <<"1">>,
                 GoodComp)]

\* _fetch_tencent_quotes(symbols); ok is whether the HTTP request gets its
\* response (TRUE) or fails in the transport (FALSE), raised whether the
\* function ends with that exception
_fetch_tencent_quotes(symbols, ok) ==
    IF symbols = <<>> THEN [raised |-> FALSE, items |-> <<>>]
    ELSE IF ~ok THEN [raised |-> TRUE, items |-> <<>>]
    ELSE CHOOSE r \in {[raised |-> FALSE, items |-> ParseContent(content)] :
                          content \in {ContentOf(ResponseFor(symbols))}} : TRUE

\* the StockData made of the items of a response.  (Below, a value that
\* several places use is bound as the element of a one-element set, so that it
\* is computed once.)
StockDataOf(items, market) ==
    [k \in 1..Len(items) |->
        [symbol |-> items[k].symbol, market |-> market,
         current_price |-> items[k].current_price]]

\* _get_cn_stocks without its try/except around the request
_get_stocks_no_except(market, symbols, ok) ==
    LET tencent_symbols == [k \in 1..Len(symbols) |-> _tencent_symbol(symbols[k], market)]
    IN  CHOOSE r \in {[requested |-> tencent_symbols, raised |-> fetched.raised,
                       logged |-> FALSE,
                       stocks |-> StockDataOf(fetched.items, market)] :
                          fetched \in {_fetch_tencent_quotes(tencent_symbols, ok)}} : TRUE

\* _get_cn_stocks, _get_hk_stocks, _get_us_stocks: alike but for the market
_get_stocks(market, symbols, ok) ==
    LET tencent_symbols == [k \in 1..Len(symbols) |-> _tencent_symbol(symbols[k], market)]
    IN  CHOOSE r \in {[requested |-> tencent_symbols, raised |-> FALSE,
                       logged |-> fetched.raised,
                       stocks |-> IF fetched.raised THEN <<>>
                                  ELSE StockDataOf(fetched.items, market)] :
                          fetched \in {_fetch_tencent_quotes(tencent_symbols, ok)}} : TRUE

\* AkshareCollector(market).get_stock_data(symbols): one batch request for the
\* translated symbols; the record of the invocation
get_stock_data(market, symbols, ok) ==
    CHOOSE r \in {[market |-> market, symbols |-> symbols, requested |-> got.requested,
                   raised |-> got.raised, stocks |-> got.stocks] :
                      got \in {_get_stocks(market, symbols, ok)}} : TRUE

\* "for market_code, symbols in market_symbols.items(): ..." of scan_intraday;
\* failing are the markets whose request fails in the transport
CollectByMarket(items, failing) ==
    CHOOSE r \in {[k \in 1..Len(groups) |->
                      get_stock_data(groups[k].market, groups[k].symbols,
                                     groups[k].market \notin failing)] :
                      groups \in {market_symbols(items)}} : TRUE

\* the same loop of insights_batch, which requests the quotes itself inside a
\* try/except of its own
FetchByMarket(items, failing) ==
    CHOOSE r \in
        {[k \in 1..Len(groups) |->
            LET market == groups[k].market
                tencent_symbols == [j \in 1..Len(groups[k].symbols) |->
                                       _tencent_symbol(groups[k].symbols[j], market)]
            IN  CHOOSE call \in
                    {[market |-> market, symbols |-> groups[k].symbols,
                      requested |-> tencent_symbols, raised |-> FALSE,
                      stocks |-> IF fetched.raised THEN <<>>
                                 ELSE StockDataOf(fetched.items, market)] :
                        fetched \in {_fetch_tencent_quotes(tencent_symbols,
                                                           market \notin failing)}} : TRUE] :
            groups \in {market_symbols(items)}} : TRUE

\* all_quotes: "try: ... all_quotes.extend(stocks) except Exception: log"
RECURSIVE all_quotes(_, _)
all_quotes(calls, k) ==
    IF k > Len(calls) THEN <<>>
    ELSE (IF calls[k].raised THEN <<>> ELSE calls[k].stocks) \o all_quotes(calls, k + 1)

\* the stocks of the watchlists explored and the moments of a scan
Stocks ==
    { [symbol |-> <<"6","0","0","5","1","9">>, market |-> "CN"],
      [symbol |-> <<"0","0","0","0","0","1">>, market |-> "CN"],
      [symbol |-> <<"0","0","7","0","0">>, market |-> "HK"],
      [symbol |-> <<"A","A","P","L">>, market |-> "US"] }

MaxWatch == 3

WatchLists == UNION {[1..n -> Stocks] : n \in 0..MaxWatch}

ScanTimes ==
    { [weekday |-> 2, seconds |-> time(10, 0), offset |-> 8, dst |-> FALSE],
      [weekday |-> 5, seconds |-> time(10, 0), offset |-> 8, dst |-> FALSE] }

\* scan_intraday of the agents API, up to the collection of the quotes, with
\* the watchlist loaded for intraday_monitor and the current time
scan_intraday(watchlist, now, failing) ==
    LET any_trading == \E m \in MarketCode : is_trading_time(m, now)
    IN  /\ \E calls \in {IF watchlist = <<>> \/ ~any_trading THEN <<>>
                          ELSE CollectByMarket(watchlist, failing)} :
              ret' = [op |-> "scan_intraday", items |-> watchlist, failing |-> failing,
                      collected |-> watchlist # <<>> /\ any_trading, calls |-> calls,
                      raised |-> FALSE, quotes |-> all_quotes(calls, 1)]
        /\ UNCHANGED <<app_vars, agents, context_builder, jobs, running, ninst, run_vars>>

\* insights_batch of the insights API, up to the batch requests of the quotes
insights_batch(items, failing) ==
    /\ \E calls \in {IF items = <<>> THEN <<>> ELSE FetchByMarket(items, failing)} :
          ret' = [op |-> "insights_batch", items |-> items, failing |-> failing,
                  collected |-> items # <<>>, calls |-> calls,
                  raised |-> FALSE, quotes |-> all_quotes(calls, 1)]
    /\ UNCHANGED <<app_vars, agents, context_builder, jobs, running, ninst, run_vars>>

(***************************************************************************)
(* Engine start (server.py): the scheduler is built from the stored agent  *)
(* configurations and started.                                             *)
(***************************************************************************)
\* the names of the stored configurations and the schedules stored for them
ConfigNames == {"daily_report", "intraday_monitor", "news_digest"}

ConfigSchedules ==
    { <<"3","0"," ","1","5"," ","*"," ","*"," ","1","-","5">>,
      <<"i","n","t","e","r","v","a","l",":","3","m">>,
      <<"b","a","d">>,
      <<>> }

\* the rows of AgentConfig: for each name, whether it is enabled and its schedule
Configs == [ConfigNames -> [enabled : BOOLEAN, schedule : ConfigSchedules]]

\* the configurations build_scheduler does not skip
Eligible(cfgs) ==
    {n \in ConfigNames : /\ cfgs[n].enabled
                         /\ n \in AGENT_REGISTRY
                         /\ cfgs[n].schedule # <<>>}

\* build_scheduler(): for the first configuration it does not skip it calls
\* sched.set_context(context), a method AgentScheduler does not have; the
\* AttributeError leaves the function through its try/finally.  Without such
\* a configuration it returns a scheduler with nothing registered.
build_scheduler(cfgs) ==
    IF Eligible(cfgs) # {}
    THEN [raised |-> TRUE, error |-> "AttributeError", registered |-> {}]
    ELSE [raised |-> FALSE, error |-> "none", registered |-> {}]

\* lifespan(app) up to its yield: scheduler = build_scheduler(); scheduler.start()
lifespan(cfgs) ==
    LET built == build_scheduler(cfgs)
    IN  /\ ~running
        /\ running' = ~built.raised
        /\ ret' = [op |-> "lifespan", configs |-> cfgs, raised |-> built.raised,
                   error |-> built.error]
        /\ UNCHANGED <<app_vars, agents, context_builder, jobs, ninst, run_vars>>

(***************************************************************************)
(* The update check (src/src/core/update_checker.py).  Each call reads the *)
(* clock, then takes _CACHE_LOCK; a fetch runs with the lock held.         *)
(***************************************************************************)
_CACHE_TTL_SECONDS == 15 * 60

MinutesPerTick == 5   \* the clock advances in steps of so many minutes

MaxTicks == 4         \* steps of the clock explored

Tick == 60 * MinutesPerTick

\* the tags _fetch_latest_docker_tag can find
Versions == {"1.2.0", "1.3.0"}

\* time passes
tick ==
    /\ clock < MaxTicks * Tick
    /\ clock' = clock + Tick
    /\ UNCHANGED <<sched_vars, run_vars, web_vars, _CACHE, _CACHE_LOCK, callers, log_vars>>

\* check_update, line 82: now = time.monotonic(), before the lock is taken
check_update_call(c) ==
    /\ callers[c].pc = "idle"
    /\ callers' = [callers EXCEPT ![c].pc = "waiting", ![c].now = clock]
    /\ UNCHANGED <<sched_vars, run_vars, web_vars, _CACHE, _CACHE_LOCK, clock, log_vars>>

\* the test of line 85 with the check of latest_version left out
CacheHit_any_result(cache, now) ==
    now - cache.ts <= _CACHE_TTL_SECONDS

\* the test of line 85: the cache is young enough and holds a version
CacheHit(cache, now) ==
    now - cache.ts <= _CACHE_TTL_SECONDS /\ cache.latest_version # NoVersion

\* check_update, lines 83-89: the lock is taken; on a hit the cached version
\* is read and the lock released, otherwise the fetch begins with the lock held
check_update_lock(c) ==
    /\ callers[c].pc = "waiting"
    /\ _CACHE_LOCK = 0
    /\ IF CacheHit(_CACHE, callers[c].now)
       THEN /\ callers' = [callers EXCEPT ![c].pc = "done", ![c].seen = _CACHE,
                                          ![c].fetched = FALSE,
                                          ![c].latest = _CACHE.latest_version]
            /\ UNCHANGED _CACHE_LOCK
       ELSE /\ callers' = [callers EXCEPT ![c].pc = "fetching", ![c].seen = _CACHE]
            /\ _CACHE_LOCK' = c
    /\ UNCHANGED <<sched_vars, run_vars, web_vars, _CACHE, clock, log_vars>>

\* check_update, lines 90-94: _fetch_latest_docker_tag returns a tag or, on an
\* error, None; the cache takes the result with the caller's now; the lock is
\* released
check_update_fetched(c, latest) ==
    /\ callers[c].pc = "fetching"
    /\ _CACHE' = [ts |-> callers[c].now, latest_version |-> latest]
    /\ _CACHE_LOCK' = 0
    /\ callers' = [callers EXCEPT ![c].pc = "done", ![c].fetched = TRUE,
                                  ![c].latest = latest]
    /\ UNCHANGED <<sched_vars, run_vars, web_vars, clock, log_vars>>

\* check_update, lines 96-110: the call returns its report
check_update_return(c) ==
    /\ callers[c].pc = "done"
    /\ callers' = [callers EXCEPT ![c].pc = "idle"]
    /\ UNCHANGED <<sched_vars, run_vars, web_vars, _CACHE, _CACHE_LOCK, clock, log_vars>>

(***************************************************************************)
(* The buffered log handler (src/src/web/log_handler.py): emit() from the  *)
(* logging threads, the flush timer and close().                           *)
(***************************************************************************)
BUFFER_SIZE == 50

MaxEntries == 51      \* log entries emitted

MaxFires == 1         \* times the flush timer fires

MaxLate == 2          \* entries appended between the call and the return of close()

\* the entries whose emit() has returned: those appended, but for the one a
\* thread holds between its append and its return
emitted == (1..nentries) \ {threads[t].entry : t \in Threads}

\* _flush with the buffer copied but not cleared
_flush_keeps_buffer(buffer, flushed) ==
    IF buffer = <<>>
    THEN [buffer |-> buffer, batches |-> flushed]
    ELSE [buffer |-> buffer, batches |-> Append(flushed, buffer)]

\* DBLogHandler._flush: nothing for an empty buffer; otherwise the entries are
\* copied into a batch and the buffer cleared.  What the database then does
\* with the batch, an exception included, changes neither.
_flush(buffer, flushed) ==
    IF buffer = <<>>
    THEN [buffer |-> buffer, batches |-> flushed]
    ELSE [buffer |-> <<>>, batches |-> Append(flushed, buffer)]

\* emit, lines 25-30: the entry is built
emit_call(t) ==
    /\ threads[t].pc = "idle"
    /\ nentries + Cardinality({u \in Threads : threads[u].pc = "built"}) < MaxEntries
    /\ threads' = [threads EXCEPT ![t] = [pc |-> "built", entry |-> 0]]
    /\ UNCHANGED <<sched_vars, run_vars, web_vars, cache_vars,
                   _buffer, _lock, _timer, batches, nentries, closer>>

\* emit, lines 31-32: the lock is taken and the entry appended; the entries
\* are numbered in the order in which they reach the buffer
emit_append(t) ==
    /\ threads[t].pc = "built"
    /\ _lock = 0
    /\ _lock' = t
    /\ nentries' = nentries + 1
    /\ _buffer' = Append(_buffer, nentries + 1)
    /\ threads' = [threads EXCEPT ![t] = [pc |-> "appended", entry |-> nentries + 1]]
    /\ UNCHANGED <<sched_vars, run_vars, web_vars, cache_vars,
                   _timer, batches, closer>>

\* emit, lines 33-34: a full buffer is flushed; the lock is released
emit_return(t) ==
    LET after == IF Len(_buffer) >= BUFFER_SIZE THEN _flush(_buffer, batches)
                 ELSE [buffer |-> _buffer, batches |-> batches]
    IN  /\ threads[t].pc = "appended"
        /\ _buffer' = after.buffer
        /\ batches' = after.batches
        /\ _lock' = 0
        /\ threads' = [threads EXCEPT ![t] = [pc |-> "idle", entry |-> 0]]
        /\ UNCHANGED <<sched_vars, run_vars, web_vars, cache_vars,
                       _timer, nentries, closer>>

\* the interval of the armed timer elapses: its thread begins _timed_flush
timer_fires ==
    /\ _timer.state = "armed"
    /\ _timer.fires < MaxFires
    /\ _timer' = [state |-> "fired", fires |-> _timer.fires + 1]
    /\ UNCHANGED <<sched_vars, run_vars, web_vars, cache_vars,
                   _buffer, _lock, batches, threads, nentries, closer>>

\* _timed_flush, lines 42-43: the flush under the lock
_timed_flush ==
    LET after == _flush(_buffer, batches)
    IN  /\ _timer.state = "fired"
        /\ _lock = 0
        /\ _buffer' = after.buffer
        /\ batches' = after.batches
        /\ _timer' = [_timer EXCEPT !.state = "flushed"]
        /\ UNCHANGED <<sched_vars, run_vars, web_vars, cache_vars,
                       _lock, threads, nentries, closer>>

\* _timed_flush, line 44: a new timer is created and started
_start_flush_timer ==
    /\ _timer.state = "flushed"
    /\ _timer' = [_timer EXCEPT !.state = "armed"]
    /\ UNCHANGED <<sched_vars, run_vars, web_vars, cache_vars,
                   _buffer, _lock, batches, threads, nentries, closer>>

\* close, lines 79-80: the timer is cancelled; one whose function already runs
\* is not stopped by cancel()
close_call ==
    /\ closer.pc = "idle"
    /\ closer' = [pc |-> "cancelled", before |-> emitted]
    /\ _timer' = IF _timer.state = "armed" THEN [_timer EXCEPT !.state = "cancelled"]
                  ELSE _timer
    /\ UNCHANGED <<sched_vars, run_vars, web_vars, cache_vars,
                   _buffer, _lock, batches, threads, nentries>>

\* close, lines 81-83: the flush under the lock, and the return
close_return ==
    LET after == _flush(_buffer, batches)
    IN  /\ closer.pc = "cancelled"
        /\ _lock = 0
        /\ _buffer' = after.buffer
        /\ batches' = after.batches
        /\ closer' = [closer EXCEPT !.pc = "returned"]
        /\ UNCHANGED <<sched_vars, run_vars, web_vars, cache_vars,
                       _lock, _timer, threads, nentries>>

(***************************************************************************)
(* Specifications.  SpecRegistry explores registration with every schedule *)
(* expression of Exprs.  Spec explores the scheduler's execution pipeline  *)
(* (scheduled firings and trigger_now) with the schedules of               *)
(* PipelineExprs.  SpecManual adds the manual trigger of server.py.        *)
(* SpecLifecycle explores scheduled firings together with shutdown and     *)
(* calls of unregister.                                                    *)
(***************************************************************************)
\* the request bodies that name each agent once
WatchBodies ==
    {<<>>} \cup {<<n>> : n \in AgentNames}
           \cup {b \in AgentNames \X AgentNames : b[1] # b[2]}

\* the request bodies of the API: up to two names, one of them without a
\* configuration
Bodies ==
    LET N == AgentNames \cup {"ghost"}
    IN  {<<>>} \cup {<<n>> : n \in N} \cup {<<n, m>> : n \in N, m \in N}

\* the stocks the requests ask to create
StockKeys == {<<"600519", "CN">>, <<"00700", "HK">>}

MaxStocks == 3        \* rows of the stocks table

PipelineExprs ==
    { <<"3","0"," ","1","5"," ","*"," ","*"," ","1","-","5">> }

NextRegistry ==
    \/ set_context_builder
    \/ \E name \in AgentNames, schedule \in Exprs : register(name, schedule)
    \/ start

SpecRegistry == Init /\ [][NextRegistry]_vars

Next ==
    \/ set_context_builder
    \/ \E name \in AgentNames, schedule \in PipelineExprs :
          ninst < MaxRegs /\ register(name, schedule)
    \/ start
    \/ \E name \in AgentNames : job_fires(name)
    \/ \E name \in AgentNames : trigger_now(name)
    \/ \E i \in 1..MaxRuns : agent_returns(i)
    \/ \E i \in 1..MaxRuns : agent_raises(i)
    \/ \E id \in StockIds, body \in WatchBodies :
          update_stock_agents(id, body) /\ stock_agents' # stock_agents

Spec == Init /\ [][Next]_vars

NextManual ==
    \/ Next
    \/ \E name \in AgentNames : trigger_agent(name)

SpecManual == Init /\ [][NextManual]_vars

NextLifecycle ==
    \/ set_context_builder
    \/ \E name \in AgentNames, schedule \in PipelineExprs :
          ninst < MaxRegs /\ register(name, schedule)
    \/ start
    \/ \E name \in AgentNames : job_fires(name)
    \/ \E i \in 1..MaxRuns : agent_returns(i)
    \/ \E i \in 1..MaxRuns : agent_raises(i)
    \/ \E name \in AgentNames : unregister(name)
    \/ shutdown

SpecLifecycle == Init /\ [][NextLifecycle]_vars

\* the stocks and agents API: requests that name known and unknown stocks and
\* agents, and create_stock requests that interleave
NextStocks ==
    \/ \E r \in Requests, k \in StockKeys :
          Cardinality(stocks) < MaxStocks /\ create_stock_query(r, k[1], k[2])
    \/ \E r \in Requests : create_stock_commit(r)
    \/ \E id \in 1..MaxStocks : delete_stock(id)
    \/ \E id \in 1..MaxStocks, body \in Bodies : update_stock_agents(id, body)
    \/ \E name \in AgentNames : delete_agent(name)

SpecStocks == Init /\ [][NextStocks]_vars

\* concurrent calls of check_update while time passes
NextUpdate ==
    \/ tick
    \/ \E c \in Callers : check_update_call(c)
    \/ \E c \in Callers : check_update_lock(c)
    \/ \E c \in Callers, latest \in Versions \cup {NoVersion} :
          check_update_fetched(c, latest)
    \/ \E c \in Callers : check_update_return(c)

SpecUpdate == Init /\ [][NextUpdate]_vars

\* emit() is called until close() has returned, up to MaxLate times after
\* close() was called
EmitsGoOn ==
    \/ closer.pc = "idle"
    \/ /\ closer.pc = "cancelled"
       /\ Cardinality((1..nentries) \ closer.before)
            + Cardinality({u \in Threads : threads[u].pc = "built"}) < MaxLate

\* logging threads, the flush timer and close() in any interleaving
NextLog ==
    \/ \E t \in Threads : EmitsGoOn /\ emit_call(t)
    \/ \E t \in Threads : emit_append(t)
    \/ \E t \in Threads : emit_return(t)
    \/ timer_fires
    \/ _timed_flush
    \/ _start_flush_timer
    \/ close_call
    \/ close_return

SpecLog == Init /\ [][NextLog]_vars

\* one call from the initial state, for every market and instant
NextMarket ==
    \E market \in MarketCode, dt \in DateTimes :
        ret = NoCall /\ is_trading_time_call(market, dt)

SpecMarket == Init /\ [][NextMarket]_vars

\* one call from the initial state, for every input
NextQuotes ==
    \/ \E symbol \in Symbols, market \in MarketCode :
          ret = NoCall /\ tencent_symbol_call(symbol, market)
    \/ \E watchlist \in WatchLists, now \in ScanTimes, failing \in SUBSET MarketCode :
          ret = NoCall /\ scan_intraday(watchlist, now, failing)
    \/ \E items \in WatchLists, failing \in SUBSET MarketCode :
          ret = NoCall /\ insights_batch(items, failing)

SpecQuotes == Init /\ [][NextQuotes]_vars

\* one call from the initial state, for every response
NextParse ==
    \E lines \in Responses : ret = NoCall /\ fetch_quotes_call(lines)

SpecParse == Init /\ [][NextParse]_vars

\* the start of the engine, for every stored configuration
NextStartup ==
    \E cfgs \in Configs : ret = NoCall /\ lifespan(cfgs)

SpecStartup == Init /\ [][NextStartup]_vars

(***************************************************************************)
(* Properties of registration, checked under SpecRegistry.                 *)
(***************************************************************************)
SeedDailyReport == <<"3","0"," ","1","5"," ","*"," ","*"," ","1","-","5">>

SeedNewsDigest ==
    <<"0"," ","*","/","2"," ","9","-","1","8"," ","*"," ","*"," ","1","-","5">>

IsCronShaped(schedule) == ~StartsWith(schedule, INTERVAL_PREFIX)

CronFields == <<"minute", "hour", "day", "month", "day_of_week">>

IsPositiveInterval(schedule) ==
    /\ StartsWith(schedule, INTERVAL_PREFIX)
    /\ Len(schedule) >= Len(INTERVAL_PREFIX) + 2
    /\ schedule[Len(schedule)] \in {"s", "m", "h"}
    /\ LET digits == SubSeq(schedule, Len(INTERVAL_PREFIX) + 1, Len(schedule) - 1)
       IN  /\ \A k \in 1..Len(digits) : digits[k] \in Digits
           /\ DecimalValue(digits, 0) > 0

IntervalNumber(schedule) ==
    DecimalValue(SubSeq(schedule, Len(INTERVAL_PREFIX) + 1, Len(schedule) - 1), 0)

UnitSeconds(unit) ==
    CASE unit = "seconds" -> 1 [] unit = "minutes" -> 60 [] unit = "hours" -> 3600

PeriodSeconds(trigger) == trigger.value * UnitSeconds(trigger.unit)

SuffixSeconds(c) == CASE c = "s" -> 1 [] c = "m" -> 60 [] c = "h" -> 3600

\* C2: "interval:<n><unit>" with n a positive integer and unit s, m or h parses
\* to an interval trigger whose period is n seconds, n minutes or n hours;
\* "interval:3m" is 3 minutes, "interval:30s" 30 seconds, "interval:1h" 1 hour.
C2_IntervalPeriod ==
    (ret.op = "register" /\ IsPositiveInterval(ret.schedule)) =>
        /\ ~ret.raised
        /\ ret.trigger.kind = "interval"
        /\ PeriodSeconds(ret.trigger) =
              IntervalNumber(ret.schedule) * SuffixSeconds(ret.schedule[Len(ret.schedule)])
        /\ ret.schedule = INTERVAL_PREFIX \o <<"3","m">> =>
              ret.trigger = [kind |-> "interval", unit |-> "minutes", value |-> 3]
        /\ ret.schedule = INTERVAL_PREFIX \o <<"3","0","s">> =>
              ret.trigger = [kind |-> "interval", unit |-> "seconds", value |-> 30]
        /\ ret.schedule = INTERVAL_PREFIX \o <<"1","h">> =>
              ret.trigger = [kind |-> "interval", unit |-> "hours", value |-> 1]

\* C2 witness: "interval:3m" was registered and gave a period of 180 seconds
C2_Witness ==
    /\ ret.op = "register"
    /\ ret.schedule = INTERVAL_PREFIX \o <<"3","m">>
    /\ ~ret.raised
    /\ PeriodSeconds(ret.trigger) = 180

\* C3: registering an interval expression whose number is not a positive
\* integer, or whose unit is not s, m or h, fails and arms no timer.
C3_InvalidIntervalFails ==
    [][\A name \in AgentNames, schedule \in IntervalExprs :
          (register(name, schedule) /\ ~IsPositiveInterval(schedule)) =>
              (ret'.raised /\ jobs' = jobs)]_vars

\* C4: no agent name ever has more than one job; after a register call that
\* succeeded, the name has exactly one job, that job carries the trigger of this
\* call, and the registry maps the name to the instance of this call.
C4_OneTimerPerName ==
    /\ \A name \in AgentNames : Cardinality(JobsOf(jobs, name)) <= 1
    /\ (ret.op = "register" /\ ~ret.raised) =>
          /\ Cardinality(JobsOf(jobs, ret.name)) = 1
          /\ \A k \in JobsOf(jobs, ret.name) : jobs[k].trigger = ret.trigger
          /\ agents[ret.name] = ret.agent

\* C4 witness: a started scheduler in which a name that had a job was registered
\* again, successfully, with another trigger
C4_Witness ==
    /\ running
    /\ ret.op = "register"
    /\ ret.had_job
    /\ ~ret.raised
    /\ ret.agent = 3
    /\ ret.trigger.kind = "interval"
    /\ Len(jobs) = 1

\* C5: a register call that raises leaves the registry and the job table as
\* they were before the call.
C5_FailedRegisterChangesNothing ==
    [][\A name \in AgentNames, schedule \in Exprs :
          (register(name, schedule) /\ ret'.raised) =>
              (agents' = agents /\ jobs' = jobs)]_vars

(***************************************************************************)
(* Properties of the execution pipeline, checked under Spec and SpecManual.*)
(***************************************************************************)
Runs == 1..Len(runs)

ByScheduler(r) == r.via \in {"job", "trigger_now"}

\* the body of run r raised and _run_agent has finished
BodyFailed(r) == r.pc = "done" /\ r.log = "exception" /\ r.bodies = 1

\* the scheduler still holds the job of the agent and will fire it again
StillScheduled(agent_name) ==
    /\ JobsOf(jobs, agent_name) # {}
    /\ agents[agent_name] # NoAgent
    /\ (running /\ Len(runs) < MaxRuns) => ENABLED job_fires(agent_name)

\* C6: when the agent body raised in a scheduled firing, the job of the agent
\* stays in the job table and can fire again, and a scheduled firing that
\* starts after such a failure calls the builder and, given a context, the body.
C6_ScheduleSurvivesBodyFailure ==
    \A i \in Runs :
        /\ (runs[i].via = "job" /\ BodyFailed(runs[i])) => StillScheduled(runs[i].name)
        /\ (runs[i].via = "job" /\ runs[i].prior_failed > 0) =>
              /\ runs[i].builds = 1
              /\ runs[i].ctx # NoContext => runs[i].bodies = 1

\* C6 witness: the first firing of an agent failed in its body and its second
\* firing, started afterwards, invoked the body
C6_Witness ==
    /\ Len(runs) = 2
    /\ runs[1].via = "job" /\ BodyFailed(runs[1])
    /\ runs[2].via = "job" /\ runs[2].name = runs[1].name
    /\ runs[2].prior_failed = 1
    /\ runs[2].bodies = 1

\* C7: no scheduled firing and no trigger_now ends with an exception leaving
\* _run_agent, whether the builder raised or the body did.
C7_NoExceptionLeavesPipeline ==
    \A i \in Runs : ByScheduler(runs[i]) => ~runs[i].raised

\* C7 witness: a trigger_now whose builder raised and a scheduled firing whose
\* body raised have both returned
C7_Witness ==
    \E i, j \in Runs :
        /\ runs[i].via = "trigger_now" /\ runs[i].build_errors = 1
        /\ runs[i].pc = "done" /\ ~runs[i].raised
        /\ runs[j].via = "job" /\ BodyFailed(runs[j]) /\ ~runs[j].raised

\* C8: in an execution whose builder call raised, the body is not invoked, the
\* builder is called once, and the job of a scheduled agent stays scheduled.
C8_BuildFailureSkipsBody ==
    \A i \in Runs :
        (ByScheduler(runs[i]) /\ runs[i].build_errors > 0) =>
            /\ runs[i].bodies = 0
            /\ runs[i].builds = 1
            /\ runs[i].pc = "done"
            /\ runs[i].via = "job" => StillScheduled(runs[i].name)

\* C8 witness: a scheduled firing whose builder raised, followed by another
\* firing of the same agent
C8_Witness ==
    /\ Len(runs) = 2
    /\ runs[1].via = "job" /\ runs[1].build_errors = 1
    /\ runs[2].via = "job" /\ runs[2].name = runs[1].name
    /\ runs[2].prior_failed = 1
    /\ runs[2].bodies = 1

\* the scheduler's execution i got past the checks of builder and registry
Executed(r) ==
    ByScheduler(r) /\ r.log \notin {"context_builder_unset", "agent_not_found"}

\* C9: every execution of a registered agent calls the builder once, with the
\* name of the agent; the body receives the context of that call, a context
\* that did not exist before this execution and no other execution holds, and
\* whose watchlist is the one configured at the moment the execution starts.
C9_ContextRebuiltEveryRun ==
    [][(Len(runs') = Len(runs) + 1 /\ Executed(runs'[Len(runs')])) =>
          LET r == runs'[Len(runs')]
          IN  /\ r.builds = 1
              /\ r.built_for = r.name
              /\ r.build_errors = 0 => r.bodies = 1
              /\ r.bodies = 1 =>
                    /\ r.ctx # NoContext
                    /\ r.body_ctx = r.ctx
                    /\ r.body_ctx.agent_name = r.name
                    /\ r.body_ctx.watchlist =
                          load_watchlist_for_agent(stock_agents, r.name)
                    /\ r.body_ctx.id > nctx
                    /\ \A j \in Runs : runs[j].body_ctx.id # r.body_ctx.id]_vars

\* C9 witness: two executions of one agent, a scheduled one and a manual one,
\* with the watchlist changed in between: the second saw the new watchlist
C9_Witness ==
    /\ Len(runs) = 2
    /\ runs[1].name = runs[2].name
    /\ runs[1].via = "job" /\ runs[2].via = "trigger_now"
    /\ runs[1].bodies = 1 /\ runs[2].bodies = 1
    /\ runs[1].body_ctx.watchlist = <<>>
    /\ runs[2].body_ctx.watchlist = <<1>>

\* the name of the run that a step starts is unknown to the registry it uses
StartsUnknown(r) ==
    \/ ByScheduler(r) /\ agents[r.name] = NoAgent
    \/ r.via = "trigger_agent" /\ r.name \notin AGENT_REGISTRY

\* C10: an execution requested for a name that is not registered reports an
\* error (logged by _run_agent, raised by trigger_agent), calls neither the
\* builder nor an agent body, and leaves registry, job table and contexts as
\* they were.
C10_UnknownAgentExecutesNothing ==
    [][(Len(runs') = Len(runs) + 1 /\ StartsUnknown(runs'[Len(runs')])) =>
          LET r == runs'[Len(runs')]
          IN  /\ r.log \in {"agent_not_found", "context_builder_unset", "not_registered"}
              /\ context_builder /\ ByScheduler(r) => r.log = "agent_not_found"
              /\ r.via = "trigger_agent" => r.raised
              /\ r.builds = 0 /\ r.bodies = 0 /\ r.pc = "done"
              /\ r.ctx = NoContext /\ r.body_ctx = NoContext
              /\ nctx' = nctx /\ agents' = agents /\ jobs' = jobs]_vars

\* C10 witness: with a builder set and another agent registered, trigger_now
\* for an unregistered name and trigger_agent for a name without implementation
\* have both been refused
C10_Witness ==
    /\ context_builder
    /\ \E i, j \in Runs :
          /\ runs[i].via = "trigger_now" /\ runs[i].log = "agent_not_found"
          /\ runs[j].via = "trigger_agent" /\ runs[j].log = "not_registered"
    /\ \E name \in AgentNames : agents[name] # NoAgent

\* C11: in every execution, scheduled or manual, whose freshly built context
\* has an empty watchlist, the agent body is not invoked and the execution ends
\* normally with the message that the agent has no stocks.
C11_EmptyWatchlistShortCircuits ==
    \A i \in Runs :
        (runs[i].ctx # NoContext /\ runs[i].ctx.watchlist = <<>>) =>
            /\ runs[i].bodies = 0
            /\ runs[i].pc = "done"
            /\ runs[i].log = "no_watchlist"
            /\ ~runs[i].raised

\* the execution that a scheduled firing of the agent would start in this state
\* when the builder behaves as it did for run r
ScheduledTwin(r) ==
    [RunAgentEntry(r.name, "job", r.build_errors = 0) EXCEPT !.via = r.via]

\* C12: a manual trigger does what a scheduled firing of the same agent would
\* do from the same state with the same behaviour of builder and body: the run
\* it starts takes the same steps (lookup, build, invocation of the body) with
\* the same outcome, and a failure of the body ends it the same way.
C12_ManualSameAsScheduled ==
    [][/\ (Len(runs') = Len(runs) + 1 /\ runs'[Len(runs')].via # "job") =>
              runs'[Len(runs')] = ScheduledTwin(runs'[Len(runs')])
       /\ \A i \in Runs :
              (runs[i].pc = "body" /\ runs'[i].pc = "done" /\ runs[i].via # "job") =>
                  ~runs'[i].raised]_vars

\* C13: trigger_now hands its caller a result: the content produced by the
\* body when the run completed, an error when the agent is unknown or the run
\* failed.
C13_TriggerNowReturnsResult ==
    \A i \in Runs :
        (runs[i].via = "trigger_now" /\ runs[i].pc = "done") =>
            /\ runs[i].log = "completed" => runs[i].result = "content"
            /\ runs[i].log \in {"agent_not_found", "exception"} =>
                  (runs[i].result = "error" \/ runs[i].raised)

(***************************************************************************)
(* Properties of the scheduler's lifecycle, checked under SpecLifecycle.   *)
(***************************************************************************)
\* C14: once unregister(name) has been called, the agent has no job and no
\* registration, so no scheduled firing of that name can start, and the runs
\* in flight are left to complete.
C14_UnregisterCancelsTimer ==
    ret.op = "unregister" =>
        /\ JobsOf(jobs, ret.name) = {}
        /\ agents[ret.name] = NoAgent
        /\ ~ENABLED job_fires(ret.name)

\* C15: shutdown stops the scheduled firings and returns only when every run
\* that was in flight at the call has finished; none is cancelled or left
\* unfinished.
C15_ShutdownWaitsForRuns ==
    [][(running /\ ~running') =>
          /\ jobs' = jobs
          /\ \A i \in Runs :
                runs[i].pc = "body" =>
                    runs'[i].pc = "done" /\ runs'[i].log \in {"completed", "exception"}]_vars

\* a firing of the agent is due: the scheduler runs, holds a job of the agent,
\* and the executions explored are not used up
Due(agent_name) ==
    running /\ JobsOf(jobs, agent_name) # {} /\ Len(runs) < MaxRuns

\* C16: while a run of one agent is in flight, a due firing of a different
\* agent starts; and a run of B that started while a run of A was in its body
\* can finish while A is still there.
C16_DifferentAgentsOverlap ==
    \A i \in Runs, b \in AgentNames :
        (runs[i].pc = "body" /\ runs[i].name # b /\ Due(b)) => ENABLED job_fires(b)

\* C16 witness: the run of one agent is still in its body, and a scheduled run
\* of another agent that started later has completed its body
C16_Witness ==
    /\ Len(runs) = 2
    /\ runs[1].via = "job" /\ runs[1].pc = "body"
    /\ runs[2].via = "job" /\ runs[2].name # runs[1].name
    /\ runs[2].bodies = 1 /\ runs[2].pc = "done" /\ runs[2].log = "completed"

(***************************************************************************)
(* Properties of the trading hours, checked under SpecMarket.              *)
(***************************************************************************)
\* the answer of the last call of is_trading_time and the instant it was asked
\* about, read on the clock of the market
Asked == ret.op = "is_trading_time"

LocalHours(market, dst) ==
    CASE market \in {"CN", "HK"} -> 8 [] market = "US" -> IF dst THEN -4 ELSE -5

AskedLocal == astimezone(ret.dt, LocalHours(ret.market, ret.dt.dst))

\* C17: for each market, at an instant that falls on a Saturday or Sunday on
\* the clock of the market, is_trading_time is false, whatever weekday the
\* instant has in the timezone it was given in: Monday 03:00 in Shanghai is
\* Sunday afternoon in New York, and Friday 21:00 in New York is Saturday
\* morning in Shanghai and Hong Kong.
C17_WeekendClosed ==
    Asked =>
        /\ AskedLocal.weekday \in {5, 6} => ~ret.result
        /\ (/\ ret.market = "US" /\ ret.dt.offset = 8
            /\ ret.dt.weekday = 0 /\ ret.dt.seconds < 12 * 3600) => ~ret.result
        /\ (/\ ret.market \in {"CN", "HK"} /\ ret.dt.offset = -5
            /\ ret.dt.weekday = 4 /\ ret.dt.seconds >= 16 * 3600) => ~ret.result

\* C17 witness: the US market asked about Monday 03:00 Shanghai time, which is
\* Sunday 14:00 in New York (standard time), within the hours of a session
C17_Witness ==
    /\ Asked /\ ret.market = "US"
    /\ ret.dt = [weekday |-> 0, seconds |-> 3 * 3600, offset |-> 8, dst |-> FALSE]
    /\ AskedLocal.weekday = 6 /\ AskedLocal.seconds = 14 * 3600
    /\ ~ret.result

\* the session windows of each market, in seconds since local midnight
Windows(market) ==
    CASE market = "CN" -> {<<34200, 41400>>, <<46800, 54000>>}
      [] market = "HK" -> {<<34200, 43200>>, <<46800, 57600>>}
      [] market = "US" -> {<<34200, 57600>>}

\* C18: on a local weekday is_trading_time is true exactly when the local time
\* of day lies in a session window, both ends included: true at the start and
\* at the end of every session, false one second before a start and one second
\* after an end, false in the break between two sessions.
C18_SessionBoundsInclusive ==
    (Asked /\ AskedLocal.weekday \in 0..4) =>
        LET t == AskedLocal.seconds
        IN  /\ ret.result <=> \E w \in Windows(ret.market) : w[1] <= t /\ t <= w[2]
            /\ \A w \in Windows(ret.market) :
                  /\ t \in {w[1], w[2]} => ret.result
                  /\ t \in {w[1] - 1, w[2] + 1} => ~ret.result
            /\ (ret.market \in {"CN", "HK"} /\ t = 12 * 3600 + 30 * 60) => ~ret.result

\* C18 witness: the CN market asked at 15:00:00 Shanghai time of a Wednesday,
\* the last instant of the afternoon session, given as 07:00:00 UTC
C18_Witness ==
    /\ Asked /\ ret.market = "CN"
    /\ ret.dt.weekday = 2 /\ ret.dt.seconds = 7 * 3600 /\ ret.dt.offset = 0
    /\ AskedLocal.seconds = 54000
    /\ ret.result

Prefixed(symbol, market) ==
    CASE market = "HK" -> <<"h", "k">> \o symbol
      [] market = "US" -> <<"u", "s">> \o symbol
      [] market = "CN" ->
            IF symbol[1] = "6" \/ SubSeq(symbol, 1, 3) = <<"0", "0", "0">>
            THEN <<"s", "h">> \o symbol ELSE <<"s", "z">> \o symbol

\* the stocks of one market, in the order of the list
OfMarket(items, market) == SelectSeq(items, LAMBDA it : it.market = market)

\* C20: when quotes are collected for a list of stocks, there is exactly one
\* invocation of the collector for each market that occurs in the list, and
\* it gets the symbols of the stocks of that market, in the order of the list,
\* each translated by the rule of the market; [600519/CN, 00700/HK] gives two
\* invocations, one requesting sh600519 and one requesting hk00700.
C20_OneCallPerMarket ==
    (ret.op \in {"scan_intraday", "insights_batch"} /\ ret.collected) =>
        LET present == {ret.items[k].market : k \in 1..Len(ret.items)}
        IN  /\ Len(ret.calls) = Cardinality(present)
            /\ \A m \in present :
                  \E k \in 1..Len(ret.calls) :
                      /\ ret.calls[k].market = m
                      /\ \A j \in 1..Len(ret.calls) : ret.calls[j].market = m => j = k
                      /\ Len(ret.calls[k].requested) = Len(OfMarket(ret.items, m))
                      /\ \A i \in 1..Len(ret.calls[k].requested) :
                            ret.calls[k].requested[i] =
                                Prefixed(OfMarket(ret.items, m)[i].symbol, m)
            /\ ret.items = << [symbol |-> <<"6","0","0","5","1","9">>, market |-> "CN"],
                              [symbol |-> <<"0","0","7","0","0">>, market |-> "HK"] >> =>
                  /\ Len(ret.calls) = 2
                  /\ ret.calls[1].requested = << <<"s","h","6","0","0","5","1","9">> >>
                  /\ ret.calls[2].requested = << <<"h","k","0","0","7","0","0">> >>

\* C20 witness: a scan of a watchlist with two CN stocks around an HK stock
\* made two invocations, the first for both CN stocks in their order
C20_Witness ==
    /\ ret.op = "scan_intraday" /\ ret.collected
    /\ Len(ret.items) = 3
    /\ ret.items[1].market = "CN" /\ ret.items[2].market = "HK"
    /\ ret.items[3].market = "CN" /\ ret.items[3].symbol # ret.items[1].symbol
    /\ Len(ret.calls) = 2
    /\ ret.calls[1].symbols = <<ret.items[1].symbol, ret.items[3].symbol>>

\* the quotes of the stocks of the list whose market's request did not fail
Reachable(items, failing) == SelectSeq(items, LAMBDA it : it.market \notin failing)

\* C21: a transport failure of the request of one market does not leave the
\* collector: its invocation returns an empty sequence, and the collection as
\* a whole still returns a quote for every stock of the other markets.
C21_FailureStaysInMarket ==
    (ret.op \in {"scan_intraday", "insights_batch"} /\ ret.collected) =>
        /\ ~ret.raised
        /\ \A k \in 1..Len(ret.calls) :
              /\ ~ret.calls[k].raised
              /\ ret.calls[k].market \in ret.failing => ret.calls[k].stocks = <<>>
              /\ ret.calls[k].market \notin ret.failing =>
                    /\ Len(ret.calls[k].stocks) = Len(ret.calls[k].symbols)
                    /\ \A j \in 1..Len(ret.calls[k].stocks) :
                          /\ ret.calls[k].stocks[j].symbol = ret.calls[k].symbols[j]
                          /\ ret.calls[k].stocks[j].market = ret.calls[k].market
        /\ Len(ret.quotes) = Len(Reachable(ret.items, ret.failing))
        /\ \A i \in 1..Len(ret.items) :
              ret.items[i].market \notin ret.failing =>
                  \E j \in 1..Len(ret.quotes) :
                      /\ ret.quotes[j].symbol = ret.items[i].symbol
                      /\ ret.quotes[j].market = ret.items[i].market

\* C21 witness: a scan of CN and HK stocks in which the request of the CN
\* market failed returned the HK quote and nothing for CN
C21_Witness ==
    /\ ret.op = "scan_intraday" /\ ret.collected
    /\ ret.failing = {"CN"}
    /\ Len(ret.calls) = 2
    /\ ret.calls[1].market = "CN" /\ ret.calls[1].stocks = <<>>
    /\ ret.calls[2].market = "HK"
    /\ Len(ret.quotes) = 1 /\ ret.quotes[1].market = "HK"

(***************************************************************************)
(* Properties of the parsing of a response, checked under SpecParse.       *)
(***************************************************************************)
Fetched == ret.op = "_fetch_tencent_quotes"

\* a line that is a record: a data line with all the fields, numbers that
\* parse (an absent one counts as 0) and a price above zero
IsRecordLine(d) ==
    /\ d.kind = "data"
    /\ d.n >= 36
    /\ d.price = <<"1",".","5">>
    /\ d.prev # <<"x">>

\* the positions of the lines of the response that are records, in order
RecordLines == SelectSeq([k \in 1..Len(ret.lines) |-> k],
                         LAMBDA k : IsRecordLine(ret.lines[k]))

NameOfLine(k) == IF k = 1 THEN <<"1">> ELSE IF k = 2 THEN <<"2">> ELSE <<"3">>

\* C22: the result of parsing a response holds, in the order of the response,
\* one record for each line that is non-empty, not a no-data line, has all its
\* fields with numbers that parse, and a price above zero; every other line is
\* skipped, without an error and without the loss of another line.
C22_ParseKeepsGoodLines ==
    Fetched =>
        /\ Len(ret.results) = Len(RecordLines)
        /\ \A j \in 1..Len(ret.results) :
              /\ ret.results[j].name = NameOfLine(RecordLines[j])
              /\ ret.results[j].current_price = 150

\* C22 witness: a response of a no-data line followed by a good line gave the
\* record of the second line
C22_Witness ==
    /\ Fetched /\ Len(ret.lines) = 2
    /\ ret.lines[1].kind = "nodata"
    /\ IsRecordLine(ret.lines[2])
    /\ Len(ret.results) = 1 /\ ret.results[1].name = <<"2">>

\* the turnover, in hundredths, that the composite field stands for
TurnoverOf(comp) ==
    CASE comp = <<"1",".","5","/","2","/","3",".","5">> -> 350
      [] comp = <<"1","/","2","/","3","/","4">> -> 300
      [] OTHER -> 0

\* C23: the turnover of a record is the third "/"-separated component of the
\* composite field, and 0.0 when that component is missing or not a number; the
\* record is returned all the same, with its other fields.
C23_TurnoverThirdComponent ==
    Fetched =>
        /\ \A k \in 1..Len(ret.lines) :
              IsRecordLine(ret.lines[k]) =>
                  \E j \in 1..Len(ret.results) : ret.results[j].name = NameOfLine(k)
        /\ \A j \in 1..Len(ret.results) :
              LET d == ret.lines[RecordLines[j]]
              IN  /\ ret.results[j].turnover = TurnoverOf(d.comp)
                  /\ ret.results[j].current_price = 150
                  /\ ret.results[j].volume = 100
                  /\ ret.results[j].high_price = 200

\* C23 witness: a record whose composite field has a third component that is
\* not a number was returned with turnover 0
C23_Witness ==
    /\ Fetched /\ Len(ret.lines) = 1
    /\ ret.lines[1].comp = <<"1",".","5","/","2","/","x">>
    /\ Len(ret.results) = 1
    /\ ret.results[1].turnover = 0 /\ ret.results[1].current_price = 150

\* the symbol that a raw identifier stands for
SymbolOf(sym) ==
    CASE sym = <<"A","A","P","L",".","O","Q">> -> <<"A","A","P","L">>
      [] sym = <<"A",".","B",".","C">> -> <<"A">>
      [] sym = <<".","I","X","I","C">> -> <<".","I","X","I","C">>
      [] sym = <<"6","0","0","5","1","9">> -> <<"6","0","0","5","1","9">>

\* C24: the symbol of a record is the raw identifier cut at its first "." when
\* the identifier contains a "." and does not begin with one; an identifier
\* that begins with "." and one without "." are returned as they are.
C24_SymbolCutAtFirstDot ==
    Fetched =>
        \A j \in 1..Len(ret.results) :
            ret.results[j].symbol = SymbolOf(ret.lines[RecordLines[j]].sym)

\* C24 witness: AAPL.OQ was returned as AAPL and .IXIC as .IXIC
C24_Witness ==
    /\ Fetched /\ Len(ret.results) = 2
    /\ ret.lines[1].sym = <<"A","A","P","L",".","O","Q">>
    /\ ret.results[1].symbol = <<"A","A","P","L">>
    /\ ret.lines[2].sym = <<".","I","X","I","C">>
    /\ ret.results[2].symbol = <<".","I","X","I","C">>

(***************************************************************************)
(* Properties of the engine start, checked under SpecStartup.              *)
(***************************************************************************)
\* C25: when the engine has started, the scheduler is built and running, and
\* every enabled agent with an implementation and a schedule that parses is
\* registered with a job, whatever the schedules stored for the other agents.
C25_InvalidScheduleIsLocal ==
    ret.op = "lifespan" =>
        /\ ~ret.raised
        /\ running
        /\ \A n \in Eligible(ret.configs) :
              ~ParseSchedule(ret.configs[n].schedule).raised =>
                  agents[n] # NoAgent /\ JobsOf(jobs, n) # {}

(***************************************************************************)
(* Executions without a context builder, checked under Spec.               *)
(***************************************************************************)
\* C26: a scheduled firing or trigger_now that starts while no builder is set
\* returns normally without calling a builder or an agent body and leaves the
\* registry and the job table as they were; one that starts for a registered
\* agent once a builder is set calls the builder and, given a context, the body.
C26_NoBuilderNoOp ==
    [][(Len(runs') = Len(runs) + 1 /\ ByScheduler(runs'[Len(runs')])) =>
          LET r == runs'[Len(runs')]
          IN  /\ ~context_builder =>
                    /\ r.pc = "done" /\ ~r.raised
                    /\ r.log = "context_builder_unset"
                    /\ r.builds = 0 /\ r.bodies = 0
                    /\ agents' = agents /\ jobs' = jobs /\ running' = running
              /\ (context_builder /\ agents[r.name] # NoAgent) =>
                    /\ r.builds = 1
                    /\ r.build_errors = 0 => r.bodies = 1]_vars

\* C26 witness: the first firing of an agent found no builder and did nothing,
\* the second, after a builder was set, invoked the body
C26_Witness ==
    /\ Len(runs) = 2
    /\ runs[1].via = "job" /\ runs[1].log = "context_builder_unset"
    /\ runs[2].via = "job" /\ runs[2].name = runs[1].name
    /\ runs[2].bodies = 1

(***************************************************************************)
(* Properties of the stocks and agents API, checked under SpecStocks.      *)
(***************************************************************************)
\* C27: every association refers to a stored stock and a stored agent
\* configuration, and an update_stock_agents request that names an agent
\* without a configuration is rejected and changes no association.
C27_AssociationsRefer ==
    /\ [](\A sa \in stock_agents :
              sa[1] \in StockIdsOf(stocks) /\ sa[2] \in agent_configs)
    /\ [][(resp' # resp /\ resp'.op = "update_stock_agents" /\ resp'.unknown) =>
              /\ resp'.status \in {400, 404}
              /\ stock_agents' = stock_agents]_vars

\* C27 witness: after an agent was deleted and a second stock created, a request
\* naming an agent without a configuration was answered 400 for a stock that
\* keeps an association
C27_Witness ==
    /\ resp.op = "update_stock_agents" /\ resp.status = 400 /\ resp.unknown
    /\ \E sa \in stock_agents : sa[1] = resp.stock_id
    /\ agent_configs # AgentNames
    /\ Cardinality(stocks) >= 2

\* C28: no two stored stocks share their symbol and market, also when
\* create_stock requests for the same pair interleave.
C28_UniqueSymbolMarket ==
    \A s \in stocks, t \in stocks :
        (s.symbol = t.symbol /\ s.market = t.market) => s = t

(***************************************************************************)
(* Properties of the update check, checked under SpecUpdate.               *)
(***************************************************************************)
\* C29: a call whose now lies within _CACHE_TTL_SECONDS of the stamp of a cache
\* that holds a version performs no fetch and reports that version; a call
\* that finds the cache without a version (the last fetch failed) fetches; and
\* at most one caller is fetching at any time.
C29_CacheLifetime ==
    /\ \A c \in Callers :
          callers[c].pc = "done" =>
              LET seen == callers[c].seen
              IN  /\ (/\ seen.latest_version # NoVersion
                      /\ callers[c].now - seen.ts <= _CACHE_TTL_SECONDS)
                     => (~callers[c].fetched /\ callers[c].latest = seen.latest_version)
                  /\ seen.latest_version = NoVersion => callers[c].fetched
    /\ Cardinality({c \in Callers : callers[c].pc = "fetching"}) <= 1

\* C29 witness: one call was answered from the cache without a fetch while the
\* other, having found the result of a failed fetch, fetched again
C29_Witness ==
    \E c \in Callers, d \in Callers :
        /\ callers[c].pc = "done" /\ ~callers[c].fetched
        /\ callers[c].latest \in Versions
        /\ callers[d].pc = "done" /\ callers[d].fetched
        /\ callers[d].seen.latest_version = NoVersion /\ callers[d].seen.ts > 0

(***************************************************************************)
(* Properties of the buffered log handler, checked under SpecLog.          *)
(***************************************************************************)
\* the places an entry takes in the flushed batches
PlacesOf(e) ==
    {p \in (1..Len(batches)) \X (1..BUFFER_SIZE) :
        p[2] <= Len(batches[p[1]]) /\ batches[p[1]][p[2]] = e}

\* C30: once close() has returned, every entry whose emit() had returned when
\* close() was called is in exactly one place of exactly one batch and not in
\* the buffer; and the buffer holds fewer than BUFFER_SIZE entries whenever
\* the lock is free.
C30_EveryEntryFlushedOnce ==
    /\ closer.pc = "returned" =>
          \A e \in closer.before :
              /\ Cardinality(PlacesOf(e)) = 1
              /\ \A i \in 1..Len(_buffer) : _buffer[i] # e
    /\ _lock = 0 => Len(_buffer) < BUFFER_SIZE

\* C30 witness: close() has returned after emit() flushed a full buffer, and
\* close() itself flushed an entry emitted before it was called
C30_Witness ==
    /\ closer.pc = "returned"
    /\ Len(batches) = 2
    /\ Len(batches[1]) = BUFFER_SIZE
    /\ batches[2][1] \in closer.before

====
